---------------------------- MODULE Spec2Model ----------------------------
(***************************************************************************)
(* A model of pptx/packaging.py: the Open XML package loader and saver.    *)
(*                                                                         *)
(* Strings that the code takes apart (item URIs, part names, relationship  *)
(* targets, extensions) are sequences of tokens.  The tokens "/" and "."   *)
(* are the two characters the path functions look for; every other token   *)
(* is a run of characters containing neither, so os.path's algorithms are  *)
(* computed on tokens exactly as they are on characters.                   *)
(*   '/ppt/a.xml'  is  <<"/", "ppt", "/", "a", ".", "xml">>                *)
(* Strings the code only compares (content types, relationship types and   *)
(* ids) are TLA+ strings.                                                   *)
(***************************************************************************)
EXTENDS Integers, Sequences, FiniteSets

\* the function with the one entry k |-> v, and the function that is f on
\* the domain of f and g elsewhere: a dict with one key, and a dict g
\* updated with the entries of f
k :> v == [x \in {k} |-> v]
f @@ g == [x \in (DOMAIN f) \cup (DOMAIN g) |-> IF x \in DOMAIN f THEN f[x] ELSE g[x]]

\* Python's None, and an object that is not None: a reference that may be
\* None is None or Some(object)
None == <<>>
Some(x) == <<x>>

\* no exception was raised
NoErr == "None"

\* Python evaluates the arguments of a call before it makes the call:
\* CallN(F, ...) is F(...) with each argument evaluated once, beforehand
Call1(F(_), x) == CHOOSE y \in {F(v) : v \in {x}} : TRUE
Call2(F(_, _), x1, x2) == CHOOSE y \in {F(v1, v2) : v1 \in {x1}, v2 \in {x2}} : TRUE
Call3(F(_, _, _), x1, x2, x3) ==
    CHOOSE y \in {F(v1, v2, v3) : v1 \in {x1}, v2 \in {x2}, v3 \in {x3}} : TRUE
Call4(F(_, _, _, _), x1, x2, x3, x4) ==
    CHOOSE y \in {F(v1, v2, v3, v4) :
                     v1 \in {x1}, v2 \in {x2}, v3 \in {x3}, v4 \in {x4}} : TRUE
Call5(F(_, _, _, _, _), x1, x2, x3, x4, x5) ==
    CHOOSE y \in {F(v1, v2, v3, v4, v5) :
                     v1 \in {x1}, v2 \in {x2}, v3 \in {x3}, v4 \in {x4}, v5 \in {x5}} : TRUE
Call6(F(_, _, _, _, _, _), x1, x2, x3, x4, x5, x6) ==
    CHOOSE y \in {F(v1, v2, v3, v4, v5, v6) :
                     v1 \in {x1}, v2 \in {x2}, v3 \in {x3}, v4 \in {x4}, v5 \in {x5},
                     v6 \in {x6}} : TRUE

(***************************************************************************)
(* posixpath                                                               *)
(***************************************************************************)

\* str.rfind, 1-based: the last index of token c in p, 0 when there is none
RFind(p, c) ==
    LET hits == {i \in 1..Len(p) : p[i] = c}
    IN  IF hits = {} THEN 0 ELSE CHOOSE i \in hits : \A j \in hits : j <= i

StartsWith(p, q) == Len(p) >= Len(q) /\ SubSeq(p, 1, Len(q)) = q

EndsWith(p, q) == Len(p) >= Len(q) /\ SubSeq(p, Len(p) - Len(q) + 1, Len(p)) = q

\* os.path.splitext: <<root, ext>>; leading dots of the file name are not
\* an extension
splitext(p) ==
    LET sepIndex == RFind(p, "/")
        dotIndex == RFind(p, ".")
    IN  IF /\ dotIndex > sepIndex
           /\ \E k \in (sepIndex + 1)..(dotIndex - 1) : p[k] # "."
        THEN <<SubSeq(p, 1, dotIndex - 1), SubSeq(p, dotIndex, Len(p))>>
        ELSE <<p, <<>>>>

\* str.rstrip('/')
RECURSIVE RStripSlash(_)
RStripSlash(p) ==
    IF p # <<>> /\ p[Len(p)] = "/" THEN Call1(RStripSlash, SubSeq(p, 1, Len(p) - 1)) ELSE p

\* os.path.split: <<head, tail>>
split(p) ==
    LET i    == RFind(p, "/")
        head == SubSeq(p, 1, i)
        tail == SubSeq(p, i + 1, Len(p))
    IN  IF head # <<>> /\ \E k \in 1..Len(head) : head[k] # "/"
        THEN <<RStripSlash(head), tail>>
        ELSE <<head, tail>>

isabs(p) == StartsWith(p, <<"/">>)

\* os.path.join of two components
join(a, b) ==
    IF isabs(b) THEN b
    ELSE IF a = <<>> \/ EndsWith(a, <<"/">>) THEN a \o b
    ELSE a \o <<"/">> \o b

\* str.split('/'): the components between the slashes, empty ones included
RECURSIVE SplitSlash(_)
SplitSlash(p) ==
    LET hits == {i \in 1..Len(p) : p[i] = "/"}
    IN  IF hits = {} THEN <<p>>
        ELSE LET i == CHOOSE i \in hits : \A j \in hits : i <= j
             IN  <<SubSeq(p, 1, i - 1)>> \o Call1(SplitSlash, SubSeq(p, i + 1, Len(p)))

\* '/'.join(comps)
RECURSIVE JoinSlash(_)
JoinSlash(comps) ==
    IF comps = <<>> THEN <<>>
    ELSE IF Len(comps) = 1 THEN comps[1]
    ELSE comps[1] \o <<"/">> \o Call1(JoinSlash, Tail(comps))

DotDot == <<".", ".">>

\* the loop of os.path.normpath over the components
RECURSIVE NormComps(_, _, _)
NormComps(comps, new_comps, initial_slashes) ==
    IF comps = <<>> THEN new_comps
    ELSE LET comp == Head(comps)
             rest == Tail(comps)
         IN  IF comp = <<>> \/ comp = <<".">>
             THEN Call3(NormComps, rest, new_comps, initial_slashes)
             ELSE IF \/ comp # DotDot
                     \/ (initial_slashes = 0 /\ new_comps = <<>>)
                     \/ (new_comps # <<>> /\ new_comps[Len(new_comps)] = DotDot)
             THEN Call3(NormComps, rest, Append(new_comps, comp), initial_slashes)
             ELSE IF new_comps # <<>>
             THEN Call3(NormComps, rest, SubSeq(new_comps, 1, Len(new_comps) - 1),
                        initial_slashes)
             ELSE Call3(NormComps, rest, new_comps, initial_slashes)

\* os.path.normpath
normpath(path) ==
    IF path = <<>> THEN <<".">>
    ELSE LET initial_slashes ==
                 IF ~StartsWith(path, <<"/">>) THEN 0
                 ELSE IF StartsWith(path, <<"/", "/">>) /\ ~StartsWith(path, <<"/", "/", "/">>)
                 THEN 2 ELSE 1
             body == Call1(JoinSlash,
                           Call3(NormComps, Call1(SplitSlash, path), <<>>, initial_slashes))
             res  == [i \in 1..initial_slashes |-> "/"] \o body
         IN  IF res = <<>> THEN <<".">> ELSE res

\* the process's working directory, used by abspath for a relative path
getcwd == <<"/", "cwd">>

\* os.path.abspath
abspath(path) ==
    IF isabs(path) THEN Call1(normpath, path) ELSE Call1(normpath, join(getcwd, path))

(***************************************************************************)
(* pptx.spec: the static format tables (read-only)                         *)
(***************************************************************************)

CT_SLIDE == "application/vnd.openxmlformats-officedocument.presentationml.slide+xml"
CT_THEME == "application/vnd.openxmlformats-officedocument.theme+xml"
CT_PROPS == "application/vnd.openxmlformats-officedocument.presentationml.presProps+xml"
CT_PNG   == "image/png"
CT_JPEG  == "image/jpeg"
CT_XML   == "application/xml"
CT_RELS  == "application/vnd.openxmlformats-package.relationships+xml"

DotXml  == <<".", "xml">>
DotRels == <<".", "rels">>
DotPng  == <<".", "png">>
DotJpg  == <<".", "jpg">>

\* pptx.spec.pml_parttypes: content type -> the fixed attributes of the type
pml_parttypes ==
    (CT_SLIDE :> [ext |-> DotXml, has_rels |-> "always"])   @@
    (CT_THEME :> [ext |-> DotXml, has_rels |-> "optional"]) @@
    (CT_PROPS :> [ext |-> DotXml, has_rels |-> "never"])    @@
    (CT_PNG   :> [ext |-> DotPng, has_rels |-> "never"])    @@
    (CT_JPEG  :> [ext |-> DotJpg, has_rels |-> "never"])

\* pptx.spec.default_content_types: extension (with its dot) -> content type
default_content_types ==
    (DotRels :> CT_RELS) @@ (DotXml :> CT_XML) @@
    (DotPng :> CT_PNG) @@ (DotJpg :> CT_JPEG)

(***************************************************************************)
(* Results: a call returns [err |-> NoErr, val |-> v] or raises, which is  *)
(* [err |-> <exception class>, val |-> None].                              *)
(***************************************************************************)

Ok(v)    == [err |-> NoErr, val |-> v]

\* the exceptions raised, by class and message
PackageNotFound  == "PackageNotFoundError: Package not found"
NoItem           == "LookupError: No package item with URI"
NotXML           == "NotXMLError: package item is not XML"
NotLoaded        == "LookupError: No part name in [Content_Types].xml"
NoContentType    == "LookupError: No part name in package content types item"
NoDefault        == "LookupError: extension not found in default_content_types"
NoSuchKey        == "LookupError: getitem() lookup failed"
DuplicateItem    == "DuplicateKeyError: Item with URI already in package"
DuplicateRel     == "DuplicateKeyError: cannot add relationship with duplicate key"
DuplicatePart    == "DuplicateKeyError: cannot add part with duplicate key"
UnknownType      == "KeyError: no content type in pptx.spec.pml_parttypes"
NoAttribute      == "AttributeError"
Corrupted        == "CorruptedPackageError: required relationships item not found"

Raise(e) == [err |-> e, val |-> None]

(***************************************************************************)
(* XML.  An element is its namespace, tag, opaque content and children;    *)
(* the bytes of an XML item are its text, in which a child written without *)
(* a prefix belongs to the default namespace its root declares.            *)
(***************************************************************************)

\* lxml etree.tostring: a child in no namespace and a child in the root's
\* default namespace are both written without a prefix
tostring(element) ==
    [kind |-> "xml",
     xmlns |-> element.ns,
     tag |-> element.tag,
     body |-> element.body,
     children |-> [i \in 1..Len(element.children) |->
        LET c == element.children[i]
        IN  [prefix |-> IF c.ns = "" \/ c.ns = element.ns THEN "" ELSE c.ns,
             tag |-> c.tag, attrs |-> c.attrs]]]

\* lxml etree.parse(...).getroot() of the text of a well-formed item
parse(bytes) ==
    [ns |-> bytes.xmlns,
     tag |-> bytes.tag,
     body |-> bytes.body,
     children |-> [i \in 1..Len(bytes.children) |->
        LET c == bytes.children[i]
        IN  [ns |-> IF c.prefix = "" THEN bytes.xmlns ELSE c.prefix,
             tag |-> c.tag, attrs |-> c.attrs]]]

\* element.findall(qname(ns, tag)): the children with that qualified name
findall(element, ns, tag) ==
    SelectSeq(element.children, LAMBDA c : c.ns = ns /\ c.tag = tag)

\* a dict comprehension {K(x): V(x) for x in seq}: a later entry replaces an
\* earlier one with the same key
DictOf(seq, K(_), V(_)) ==
    LET keys == {K(seq[i]) : i \in 1..Len(seq)}
        last(k) == CHOOSE i \in 1..Len(seq) :
                      /\ K(seq[i]) = k
                      /\ \A j \in 1..Len(seq) : K(seq[j]) = k => j <= i
    IN  [k \in keys |-> V(seq[last(k)])]

\* the order of the tokens as Python compares the strings they stand for
TokenRank ==
    ("." :> 1) @@ ("/" :> 2) @@ ("PNG" :> 3) @@ ("[Content_Types]" :> 4) @@
    ("_rels" :> 5) @@ ("a" :> 6) @@ ("b" :> 7) @@ ("c" :> 8) @@ ("cwd" :> 9) @@
    ("d" :> 10) @@ ("jpg" :> 11) @@ ("png" :> 12) @@ ("ppt" :> 13) @@
    ("rels" :> 14) @@ ("xml" :> 15)

\* p < q for two strings
RECURSIVE StrLess(_, _)
StrLess(p, q) ==
    IF q = <<>> THEN FALSE
    ELSE IF p = <<>> THEN TRUE
    ELSE IF Head(p) # Head(q) THEN TokenRank[Head(p)] < TokenRank[Head(q)]
    ELSE Call2(StrLess, Tail(p), Tail(q))

\* sorted(keys)
RECURSIVE sorted(_)
sorted(keys) ==
    IF keys = {} THEN <<>>
    ELSE LET k == CHOOSE k \in keys : \A j \in keys \ {k} : StrLess(k, j)
         IN  <<k>> \o Call1(sorted, keys \ {k})

(***************************************************************************)
(* FileSystem: a zip archive is a function from member names (no leading   *)
(* slash) to the members' bytes.                                           *)
(***************************************************************************)

\* ZipFileSystem.itemURIs, as a set: '/' + name for each member that is not
\* a directory entry
itemURIs(zip) ==
    {<<"/">> \o name : name \in {n \in DOMAIN zip : ~EndsWith(n, <<"/">>)}}

\* ZipFileSystem.getstream(...).read(): the member's bytes
getstream(zip, itemURI) ==
    IF itemURI \notin itemURIs(zip) THEN Raise(NoItem)
    ELSE Ok(zip[Tail(itemURI)])

\* BaseFileSystem.getelement
getelement(zip, itemURI) ==
    IF itemURI \notin itemURIs(zip) THEN Raise(NoItem)
    ELSE IF zip[Tail(itemURI)].kind # "xml" THEN Raise(NotXML)
    ELSE Ok(parse(zip[Tail(itemURI)]))

(***************************************************************************)
(* ContentTypesItem                                                        *)
(***************************************************************************)

ContentTypesURI == <<"/", "[Content_Types]", ".", "xml">>

\* ContentTypesItem.__init__
ContentTypesItem == [defaults |-> None, overrides |-> None]

\* __getitem__ as it would be if it looked at the defaults first
GetitemDefaultsFirst(cti, partname) ==
    IF cti.defaults = None \/ cti.overrides = None THEN Raise(NotLoaded)
    ELSE LET ext0 == splitext(partname)[2]
             ext  == IF StartsWith(ext0, <<".">>) THEN Tail(ext0) ELSE ext0
         IN  IF ext \in DOMAIN cti.defaults[1] THEN Ok(cti.defaults[1][ext])
             ELSE IF partname \in DOMAIN cti.overrides[1]
             THEN Ok(cti.overrides[1][partname])
             ELSE Raise(NoContentType)

\* __getitem__ as it would be if it returned an empty content type where it
\* finds none
GetitemOrEmpty(cti, partname) ==
    IF cti.defaults = None \/ cti.overrides = None THEN Ok("")
    ELSE IF partname \in DOMAIN cti.overrides[1] THEN Ok(cti.overrides[1][partname])
    ELSE LET ext0 == splitext(partname)[2]
             ext  == IF StartsWith(ext0, <<".">>) THEN Tail(ext0) ELSE ext0
         IN  IF ext \in DOMAIN cti.defaults[1] THEN Ok(cti.defaults[1][ext])
             ELSE Ok("")

\* ContentTypesItem.__getitem__
CtiGetitem(cti, partname) ==
    IF cti.defaults = None \/ cti.overrides = None THEN Raise(NotLoaded)
    ELSE IF partname \in DOMAIN cti.overrides[1] THEN Ok(cti.overrides[1][partname])
    ELSE LET ext0 == splitext(partname)[2]
             ext  == IF StartsWith(ext0, <<".">>) THEN Tail(ext0) ELSE ext0
         IN  IF ext \in DOMAIN cti.defaults[1] THEN Ok(cti.defaults[1][ext])
             ELSE Raise(NoContentType)

\* the loop of ContentTypesItem.compose over the parts: self is the item as
\* the call leaves it
RECURSIVE ComposeLoop(_, _)
ComposeLoop(parts, cti) ==
    IF parts = <<>> THEN [err |-> NoErr, val |-> cti, self |-> cti]
    ELSE LET part == Head(parts)
             ext  == splitext(part.partname)[2]
         IN  IF ext = DotXml
             THEN Call2(ComposeLoop, Tail(parts),
                     [cti EXCEPT !.overrides[1] = (part.partname :> part.typespec) @@ @])
             ELSE IF ext \in DOMAIN default_content_types
             THEN Call2(ComposeLoop, Tail(parts),
                     [cti EXCEPT !.defaults[1] = (Tail(ext) :> default_content_types[ext]) @@ @])
             ELSE [err |-> NoDefault, val |-> None, self |-> cti]

\* compose as it would be if it added to what a loaded or composed item holds
ComposeIncremental(cti, parts) ==
    ComposeLoop(parts,
        IF cti.defaults # None /\ cti.overrides # None THEN cti
        ELSE [defaults  |-> Some([e \in {Tail(DotRels), Tail(DotXml)} |->
                                     default_content_types[<<".">> \o e]]),
              overrides |-> Some(<<>>)])

\* ContentTypesItem.compose: the item built from the parts, whatever it held
compose(cti, parts) ==
    ComposeLoop(parts,
        [defaults  |-> Some([e \in {Tail(DotRels), Tail(DotXml)} |->
                                 default_content_types[<<".">> \o e]]),
         overrides |-> Some(<<>>)])

\* ContentTypesItem.element
CtiElement(cti) ==
    LET defs == IF cti.defaults = None \/ DOMAIN cti.defaults[1] = {} THEN <<>>
                ELSE LET ks == sorted(DOMAIN cti.defaults[1])
                     IN  [i \in 1..Len(ks) |->
                            [ns |-> "ct", tag |-> "Default",
                             attrs |-> [Extension |-> ks[i],
                                        ContentType |-> cti.defaults[1][ks[i]]]]]
        ovrs == IF cti.overrides = None \/ DOMAIN cti.overrides[1] = {} THEN <<>>
                ELSE LET ks == sorted(DOMAIN cti.overrides[1])
                     IN  [i \in 1..Len(ks) |->
                            [ns |-> "ct", tag |-> "Override",
                             attrs |-> [PartName |-> ks[i],
                                        ContentType |-> cti.overrides[1][ks[i]]]]]
    IN  [ns |-> "ct", tag |-> "Types", body |-> "", children |-> defs \o ovrs]

\* ContentTypesItem.load, after getelement gave got
CtiLoadFrom(got) ==
    IF got.err # NoErr THEN got
    ELSE Ok([defaults  |-> Some(DictOf(findall(got.val, "ct", "Default"),
                                  LAMBDA d : d.attrs.Extension,
                                  LAMBDA d : d.attrs.ContentType)),
             overrides |-> Some(DictOf(findall(got.val, "ct", "Override"),
                                  LAMBDA o : o.attrs.PartName,
                                  LAMBDA o : o.attrs.ContentType))])

\* load as it would be if it added the entries read to those the item holds
CtiLoadMerged(cti, zip) ==
    LET r == CtiLoadFrom(getelement(zip, ContentTypesURI))
    IN  IF r.err # NoErr \/ cti.defaults = None \/ cti.overrides = None THEN r
        ELSE Ok([defaults  |-> Some(r.val.defaults[1] @@ cti.defaults[1]),
                 overrides |-> Some(r.val.overrides[1] @@ cti.overrides[1])])

\* ContentTypesItem.load
CtiLoad(cti, zip) == Call1(CtiLoadFrom, getelement(zip, ContentTypesURI))

(***************************************************************************)
(* Relationship, RelationshipCollection, RelationshipsItem                 *)
(***************************************************************************)

\* Relationship.__init__: the relationship read from a Relationship element
Relationship(element) ==
    [rId |-> element.attrs.Id, reltype |-> element.attrs.Type,
     target |-> element.attrs.Target]

\* Relationship.element: an element in no namespace
RelElement(rel) ==
    [ns |-> "", tag |-> "Relationship",
     attrs |-> [Id |-> rel.rId, Type |-> rel.reltype, Target |-> rel.target]]

\* target_partname as it would be if the joined path were left as it is
TargetJoined(baseURI, rel) == join(baseURI, rel.target)

\* Relationship.target_partname, baseURI being that of the owning item
target_partname(baseURI, rel) == Call1(abspath, join(baseURI, rel.target))

\* RelationshipCollection.__init__: the list and its index by rId
RelationshipCollection == [list |-> <<>>, id_dict |-> <<>>]

\* additem as it would be without its check for a duplicate key
AdditemUnchecked(coll, rel_elm) ==
    [err |-> NoErr, val |-> Some(Relationship(rel_elm)),
     self |-> [list    |-> Append(coll.list, Relationship(rel_elm)),
               id_dict |-> (Relationship(rel_elm).rId :> Relationship(rel_elm))
                               @@ coll.id_dict]]

\* RelationshipCollection.additem: the relationship returned or the
\* exception, and the collection as the call leaves it
additem(coll, rel_elm) ==
    LET rel == Relationship(rel_elm)
    IN  IF rel.rId \in DOMAIN coll.id_dict
        THEN [err |-> DuplicateRel, val |-> None, self |-> coll]
        ELSE [err |-> NoErr, val |-> Some(rel),
              self |-> [list    |-> Append(coll.list, rel),
                        id_dict |-> (rel.rId :> rel) @@ coll.id_dict]]

\* RelationshipCollection.getitem
RelGetitem(coll, key) ==
    IF key \in DOMAIN coll.id_dict THEN Ok(coll.id_dict[key]) ELSE Raise(NoSuchKey)

\* the loop of RelationshipsItem.load over the Relationship elements
RECURSIVE AddItems(_, _)
AddNext(r, elms) == IF r.err # NoErr THEN Raise(r.err) ELSE Call2(AddItems, r.self, elms)
AddItems(coll, elms) ==
    IF elms = <<>> THEN Ok(coll) ELSE Call2(AddNext, additem(coll, Head(elms)), Tail(elms))

\* RelationshipsItem.load, after getelement gave got
RelsItemLoadFrom(got) ==
    IF got.err # NoErr THEN got
    ELSE Call2(AddItems, RelationshipCollection, findall(got.val, "pr", "Relationship"))

\* RelationshipsItem.load: the collection read from the item at itemURI
RelsItemLoad(zip, itemURI) == Call1(RelsItemLoadFrom, getelement(zip, itemURI))

\* RelationshipsItem.element
RelsItemElement(relsitem) ==
    [ns |-> "pr", tag |-> "Relationships", body |-> "",
     children |-> [i \in 1..Len(relsitem.relationships.list) |->
                      RelElement(relsitem.relationships.list[i])]]

PackageRelsURI == <<"/", "_rels", "/", ".", "rels">>

\* a relationships item whose load gave r: the item, or the exception
RelsItem(itemURI, baseURI, r) ==
    IF r.err # NoErr THEN r
    ELSE Ok([itemURI |-> itemURI, baseURI |-> baseURI, relationships |-> r.val])

\* PackageRelationshipsItem.load
PackageRelationshipsItemLoad(zip) ==
    Call3(RelsItem, PackageRelsURI, <<"/">>, RelsItemLoad(zip, PackageRelsURI))

\* PartRelationshipsItem.load
PartRelationshipsItemLoad(partname, zip, itemURI) ==
    Call3(RelsItem, itemURI, split(partname)[1], RelsItemLoad(zip, itemURI))

(***************************************************************************)
(* PartTypeSpec: instances cached per content type for the whole process.  *)
(* A cached instance is [id, loaded, attrs]: id tells the objects apart,   *)
(* attrs is None until __init__ has copied the attributes of the type from *)
(* pml_parttypes, Some(them) after.                                        *)
(***************************************************************************)

\* the identity of the next object made: one no instance of the cache has
NewId(instances) ==
    LET ids == {instances[c].id : c \in DOMAIN instances}
    IN  IF ids = {} THEN 1 ELSE 1 + (CHOOSE i \in ids : \A j \in ids : j <= i)

\* PartTypeSpec as it would be if __new__ made an instance on every call
PartTypeSpecUncached(instances, content_type) ==
    LET made == (content_type :> [id |-> NewId(instances), loaded |-> TRUE,
                                  attrs |-> IF content_type \in DOMAIN pml_parttypes
                                            THEN Some(pml_parttypes[content_type])
                                            ELSE None])
                    @@ instances
    IN  IF content_type \notin DOMAIN pml_parttypes
        THEN [instances |-> made, err |-> UnknownType, val |-> None, inst |-> None]
        ELSE [instances |-> made, err |-> NoErr, val |-> content_type,
              inst |-> Some(made[content_type].id)]

\* PartTypeSpec.__new__ then __init__: the cache afterwards, and the instance
\* (val names it by its content type, inst by its identity) or the exception
PartTypeSpec(instances, content_type) ==
    LET cached == IF content_type \in DOMAIN instances THEN instances
                  ELSE (content_type :> [id |-> NewId(instances), loaded |-> FALSE,
                                         attrs |-> None]) @@ instances
        inst   == cached[content_type]
    IN  IF inst.loaded
        THEN [instances |-> cached, err |-> NoErr, val |-> content_type,
              inst |-> Some(inst.id)]
        ELSE IF content_type \notin DOMAIN pml_parttypes
        THEN [instances |-> [cached EXCEPT ![content_type].loaded = TRUE],
              err |-> UnknownType, val |-> None, inst |-> None]
        ELSE [instances |-> [cached EXCEPT ![content_type] =
                                [id |-> inst.id, loaded |-> TRUE,
                                 attrs |-> Some(pml_parttypes[content_type])]],
              err |-> NoErr, val |-> content_type, inst |-> Some(inst.id)]

\* PartTypeSpec.format, of an instance whose attributes are set
format(inst) == IF inst.attrs[1].ext = DotXml THEN "xml" ELSE "binary"

(***************************************************************************)
(* Part                                                                    *)
(***************************************************************************)

\* Part.__relsitemURI
relsitemURI(inst, partname, zip) ==
    IF inst.attrs[1].has_rels = "never" THEN None
    ELSE LET head == split(partname)[1]
             tail == split(partname)[2]
             uri  == head \o <<"/", "_rels", "/">> \o tail \o DotRels
             present == uri \in itemURIs(zip)
         IN  IF inst.attrs[1].has_rels = "optional"
             THEN (IF present THEN Some(uri) ELSE None)
             ELSE Some(uri)

\* The result of Part.load: the cache of type specs as the call leaves it,
\* the part or the exception, and the item URIs whose bytes the call read.
Loaded(insts, part, rd) == [instances |-> insts, err |-> NoErr, val |-> part, reads |-> rd]
Failed(insts, e, rd)    == [instances |-> insts, err |-> e, val |-> None, reads |-> rd]

\* Part.load, the end: ri is what loading the part's rels item gave
PartLoadRelsItem(insts, part, rd, ri) ==
    IF ri.err # NoErr THEN Failed(insts, ri.err, rd)
    ELSE Loaded(insts, [part EXCEPT !.relsitem = Some(ri.val)], rd)

\* Part.load as it would be if a relationships item that is not in the
\* package were taken for none
PartLoadRelsLenient(insts, zip, part, rd, uri) ==
    IF uri = None \/ uri[1] \notin itemURIs(zip) THEN Loaded(insts, part, rd)
    ELSE Call4(PartLoadRelsItem, insts, part, Append(rd, uri[1]),
               PartRelationshipsItemLoad(part.partname, zip, uri[1]))

\* Part.load, from "load relationships item if part has one" on: uri is what
\* __relsitemURI returned
PartLoadRels(insts, zip, part, rd, uri) ==
    IF uri = None THEN Loaded(insts, part, rd)
    ELSE IF uri[1] \notin itemURIs(zip) THEN Failed(insts, Corrupted, rd)
    ELSE Call4(PartLoadRelsItem, insts, part, Append(rd, uri[1]),
               PartRelationshipsItemLoad(part.partname, zip, uri[1]))

\* Part.load as it would be if it filled both body slots whatever the format
PartLoadBodyBoth(insts, zip, partname, content_type, isxml, body) ==
    IF body.err # NoErr
    THEN Failed(insts, body.err,
                IF partname \in itemURIs(zip) THEN <<partname>> ELSE <<>>)
    ELSE Call5(PartLoadRels, insts, zip,
               [partname |-> partname, typespec |-> content_type,
                blob |-> Some(body.val), element |-> Some(body.val),
                relsitem |-> None],
               <<partname>>,
               relsitemURI(insts[content_type], partname, zip))

\* Part.load, from the read of the body on: body is what the read gave
PartLoadBody(insts, zip, partname, content_type, isxml, body) ==
    IF body.err # NoErr
    THEN Failed(insts, body.err,
                IF partname \in itemURIs(zip) THEN <<partname>> ELSE <<>>)
    ELSE Call5(PartLoadRels, insts, zip,
               [partname |-> partname, typespec |-> content_type,
                blob |-> IF isxml THEN None ELSE Some(body.val),
                element |-> IF isxml THEN Some(body.val) ELSE None,
                relsitem |-> None],
               <<partname>>,
               relsitemURI(insts[content_type], partname, zip))

\* Part.load, from "load element if part is xml, blob otherwise" on
PartLoadFormat(insts, zip, partname, content_type, isxml) ==
    Call6(PartLoadBody, insts, zip, partname, content_type, isxml,
          IF isxml THEN getelement(zip, partname) ELSE getstream(zip, partname))

\* Part.load, after its first statement: ts is what PartTypeSpec(content_type)
\* gave; an instance left without attributes has no ext for format to read
PartLoadSpec(zip, partname, content_type, ts) ==
    IF ts.err # NoErr THEN Failed(ts.instances, ts.err, <<>>)
    ELSE IF ts.instances[content_type].attrs = None
    THEN Failed(ts.instances, NoAttribute, <<>>)
    ELSE Call5(PartLoadFormat, ts.instances, zip, partname, content_type,
               format(ts.instances[content_type]) = "xml")

\* Part.load
PartLoad(instances, zip, partname, content_type) ==
    Call4(PartLoadSpec, zip, partname, content_type, PartTypeSpec(instances, content_type))

\* Part.relationships
relationships(part) ==
    IF part.relsitem = None THEN None ELSE Some(part.relsitem[1].relationships)

(***************************************************************************)
(* PartCollection                                                          *)
(***************************************************************************)

\* PartCollection.__init__: the list and its index by part name
PartCollection == [list |-> <<>>, partname_dict |-> <<>>]

\* __contains__ as it would be if no part name were ever found
ContainsNothing(parts, partname) == FALSE

\* PartCollection.__contains__
PartsContains(parts, partname) == partname \in DOMAIN parts.partname_dict

\* getitem as it would be if it returned the first part of the list
GetitemFirst(parts, partname) ==
    IF parts.list # <<>> THEN Ok(parts.list[1]) ELSE Raise(NoSuchKey)

\* PartCollection.getitem
PartsGetitem(parts, partname) ==
    IF partname \in DOMAIN parts.partname_dict THEN Ok(parts.partname_dict[partname])
    ELSE Raise(NoSuchKey)

\* loadpart as it would be without the line that enters the part in the
\* index by part name
RegisterUnindexed(parts, partname, r) ==
    IF r.err # NoErr
    THEN [parts |-> parts, instances |-> r.instances, err |-> r.err,
          val |-> None, reads |-> r.reads]
    ELSE [parts |-> [list |-> Append(parts.list, r.val),
                     partname_dict |-> parts.partname_dict],
          instances |-> r.instances, err |-> NoErr, val |-> r.val,
          reads |-> r.reads]

\* PartCollection.loadpart, after Part().load(...) gave r: the part is
\* registered unless the load raised
Register(parts, partname, r) ==
    IF r.err # NoErr
    THEN [parts |-> parts, instances |-> r.instances, err |-> r.err,
          val |-> None, reads |-> r.reads]
    ELSE [parts |-> [list |-> Append(parts.list, r.val),
                     partname_dict |-> (partname :> r.val) @@ parts.partname_dict],
          instances |-> r.instances, err |-> NoErr, val |-> r.val,
          reads |-> r.reads]

\* loadpart as it would be without its check for a duplicate key
LoadpartUnchecked(parts, instances, zip, partname, content_type) ==
    Call3(Register, parts, partname, PartLoad(instances, zip, partname, content_type))

\* PartCollection.loadpart: the collection and the cache afterwards, the new
\* part or the exception, and the item URIs read
loadpart(parts, instances, zip, partname, content_type) ==
    IF partname \in DOMAIN parts.partname_dict
    THEN [parts |-> parts, instances |-> instances, err |-> DuplicatePart,
          val |-> None, reads |-> <<>>]
    ELSE Call3(Register, parts, partname,
               PartLoad(instances, zip, partname, content_type))

(***************************************************************************)
(* ZipFileSystem, writing                                                  *)
(***************************************************************************)

\* write_blob as it would be without its check for an item of that URI
WriteBlobOver(zip, blob, itemURI) == Ok((Tail(itemURI) :> blob) @@ zip)

\* ZipFileSystem.write_element
write_element(zip, element, itemURI) ==
    IF itemURI \in itemURIs(zip) THEN Raise(DuplicateItem)
    ELSE Ok((Tail(itemURI) :> tostring(element)) @@ zip)

\* ZipFileSystem.write_blob
write_blob(zip, blob, itemURI) ==
    IF itemURI \in itemURIs(zip) THEN Raise(DuplicateItem)
    ELSE Ok((Tail(itemURI) :> blob) @@ zip)

\* ZipFileSystem.new: an empty archive, whatever was at the path
new(existing) == <<>>

(***************************************************************************)
(* Package.save                                                            *)
(***************************************************************************)

DotPptx == <<".", "pptx">>

\* Package.__normalizedpath
normalizedpath(path) == IF EndsWith(path, DotPptx) THEN path ELSE path \o DotPptx

\* a running save() as it would be if a write that raises emptied the archive
WrittenRolledBack(w, s, itemURI) ==
    IF w.err # NoErr THEN [err |-> w.err, zip |-> <<>>, written |-> s.written]
    ELSE [err |-> NoErr, zip |-> w.val, written |-> Append(s.written, itemURI)]

\* The state of a running save(): the exception raised, if any, the archive
\* at the path, and the URIs of the items written to it so far, in order.
\* A write to itemURI gave w: the state after it, s being the state before
Written(w, s, itemURI) ==
    IF w.err # NoErr THEN [err |-> w.err, zip |-> s.zip, written |-> s.written]
    ELSE [err |-> NoErr, zip |-> w.val, written |-> Append(s.written, itemURI)]

\* save() as it would be if it wrote the relationships item of no part
SavePartOnly(part, s) == s

\* save(), "write rels item if part has one": s is the state after the
\* write of the part's item
SavePartRels(part, s) ==
    IF s.err # NoErr \/ part.relsitem = None THEN s
    ELSE Call3(Written,
               write_element(s.zip, RelsItemElement(part.relsitem[1]),
                             part.relsitem[1].itemURI),
               s, part.relsitem[1].itemURI)

\* the body of the loop of Package.save for one part: the state after the
\* part's item and its rels item are written, or the exception with the
\* archive as the failing write leaves it
SavePart(s, instances, part) ==
    Call2(SavePartRels, part,
          Written(IF format(instances[part.typespec]) = "xml"
                  THEN write_element(s.zip, part.element[1], part.partname)
                  ELSE write_blob(s.zip, part.blob[1], part.partname),
                  s, part.partname))

RECURSIVE SaveParts(_, _, _)
SaveNext(s, instances, list) ==
    IF s.err # NoErr THEN s ELSE Call3(SaveParts, s, instances, list)
SaveParts(s, instances, list) ==
    IF list = <<>> THEN s
    ELSE Call3(SaveNext, SavePart(s, instances, Head(list)), instances, Tail(list))

\* save(), from the write of the package relationships item on: s is the
\* state after the write of the manifest
SaveRels(package, instances, s) ==
    IF s.err # NoErr THEN s
    ELSE IF package.relsitem = None
    THEN [err |-> NoAttribute, zip |-> s.zip, written |-> s.written]
    ELSE Call3(SaveNext,
               Call3(Written,
                     write_element(s.zip, RelsItemElement(package.relsitem[1]),
                                   PackageRelsURI),
                     s, PackageRelsURI),
               instances, package.parts.list)

\* save(), from the write of the manifest on: c is the composed item and s
\* the state before the write
SaveTypes(package, instances, s, c) ==
    Call3(SaveRels, package, instances,
          Written(write_element(s.zip, CtiElement(c), ContentTypesURI), s, ContentTypesURI))

\* save(), after compose gave c, zip being the new archive
SaveComposed(package, instances, zip, c) ==
    IF c.err # NoErr THEN [err |-> c.err, zip |-> zip, written |-> <<>>]
    ELSE Call4(SaveTypes, package, instances,
               [err |-> NoErr, zip |-> zip, written |-> <<>>], c.val)

\* Package.save, from the creation of the archive on: the exception, if
\* any, the archive left at the path, which held existing (None: no file),
\* and the items written
save(package, instances, existing) ==
    Call4(SaveComposed, package, instances, new(existing),
          compose(ContentTypesItem, package.parts.list))

(***************************************************************************)
(* The archives a package is opened from                                   *)
(***************************************************************************)

PartA == <<"/", "ppt", "/", "a", ".", "xml">>
PartB == <<"/", "ppt", "/", "b", ".", "xml">>
PartC == <<"/", "ppt", "/", "c", ".", "png">>
RelsA == <<"/", "ppt", "/", "_rels", "/", "a", ".", "xml", ".", "rels">>
RelsB == <<"/", "ppt", "/", "_rels", "/", "b", ".", "xml", ".", "rels">>

\* relationship targets, relative to '/' and to '/ppt'
RootToA    == <<"ppt", "/", "a", ".", "xml">>
RootToAAbs == PartA
RootToB    == <<"ppt", "/", "b", ".", "xml">>
RootToC    == <<"ppt", "/", "c", ".", "png">>
ToA        == <<"a", ".", "xml">>
ToB        == <<"b", ".", "xml">>
ToBDots    == <<".", ".", "/", "ppt", "/", ".", "/", "b", ".", "xml">>
ToC        == <<"c", ".", "png">>

RIds == <<"rId1", "rId2", "rId3">>

\* the text of a relationships item with the given targets and ids
RelsDoc(targets, ids) ==
    [kind |-> "xml", xmlns |-> "pr", tag |-> "Relationships", body |-> "",
     children |-> [i \in 1..Len(targets) |->
        [prefix |-> "", tag |-> "Relationship",
         attrs |-> [Id |-> ids[i], Type |-> "rt", Target |-> targets[i]]]]]

\* the text of a [Content_Types].xml with the given Default and Override entries
TypesDoc(defaults, overrides) ==
    [kind |-> "xml", xmlns |-> "ct", tag |-> "Types", body |-> "",
     children |->
        [i \in 1..Len(defaults) |->
            [prefix |-> "", tag |-> "Default",
             attrs |-> [Extension |-> defaults[i][1], ContentType |-> defaults[i][2]]]]
        \o
        [i \in 1..Len(overrides) |->
            [prefix |-> "", tag |-> "Override",
             attrs |-> [PartName |-> overrides[i][1], ContentType |-> overrides[i][2]]]]]

\* the text of an XML part and the bytes of a binary one
XmlBody(id) ==
    [kind |-> "xml", xmlns |-> "p", tag |-> "root", body |-> id, children |-> <<>>]
RawBody(id) == [kind |-> "raw", id |-> id]

Member(cond, itemURI, bytes) == IF cond THEN (Tail(itemURI) :> bytes) ELSE <<>>

\* a manifest is to hold no entry for a key
NoEntry == "None"

\* the entry of a manifest for a key, if it is to hold one
Entry(key, ct) == IF ct = NoEntry THEN <<>> ELSE <<<<key, ct>>>>

\* The archive with root relationships root, the relationships a and b of
\* the parts A and B (None: no rels item), the content types of the manifest
\* and the given fault.
Archive(root, a, b, types, fault) ==
    Member(fault # "no_manifest", ContentTypesURI,
           TypesDoc(<<<<<<"rels">>, CT_RELS>>, <<<<"xml">>, CT_XML>>>>
                        \o Entry(<<"png">>, types.png),
                    Entry(PartA, types.a) \o Entry(PartB, types.b)))
    @@ Member(fault # "no_rootrels", PackageRelsURI,
              RelsDoc(root, IF fault = "dup_ids" THEN <<"rId1", "rId1", "rId1">> ELSE RIds))
    @@ Member(TRUE, PartA, XmlBody("bodyA"))
    @@ Member(fault # "b_missing", PartB,
              IF fault = "b_raw" THEN RawBody("notxml") ELSE XmlBody("bodyB"))
    @@ Member(TRUE, PartC, RawBody("bodyC"))
    @@ Member(a # None, RelsA, RelsDoc(IF a = None THEN <<>> ELSE a[1], RIds))
    @@ Member(b # None, RelsB, RelsDoc(IF b = None THEN <<>> ELSE b[1], RIds))

RootMenu == {<<RootToA>>, <<RootToA, RootToAAbs>>, <<RootToA, RootToB>>,
             <<RootToB, RootToC>>}
ARelsMenu == {None, Some(<<ToA>>), Some(<<ToB>>), Some(<<ToB, ToBDots, ToC>>)}
BRelsMenu == {None, Some(<<ToA>>), Some(<<ToC, ToA>>)}
TypesMenu ==
    {[a |-> CT_SLIDE, b |-> CT_THEME, png |-> CT_PNG],
     [a |-> CT_THEME, b |-> CT_PROPS, png |-> CT_JPEG],
     [a |-> CT_SLIDE, b |-> CT_SLIDE, png |-> CT_PNG],
     [a |-> CT_THEME, b |-> NoEntry,  png |-> CT_PNG],
     [a |-> CT_SLIDE, b |-> CT_THEME, png |-> NoEntry]}

\* the archives at the path a package is first opened from: every graph of
\* the menus under every manifest, and a few archives with a fault each
Archives ==
    {Archive(r, a, b, t, "none") :
        r \in RootMenu, a \in ARelsMenu, b \in BRelsMenu, t \in TypesMenu}
    \cup
    {Archive(<<RootToA, RootToB>>, Some(<<ToB>>), Some(<<ToA>>),
             [a |-> CT_SLIDE, b |-> CT_THEME, png |-> CT_PNG], f) :
        f \in {"no_manifest", "no_rootrels", "dup_ids", "b_missing", "b_raw"}}
    \cup
    {Archive(<<>>, None, None, [a |-> CT_SLIDE, b |-> CT_THEME, png |-> CT_PNG], "none"),
     Archive(<<RootToA>>, Some(<<>>), None,
             [a |-> CT_SLIDE, b |-> CT_THEME, png |-> CT_PNG], "none")}

(***************************************************************************)
(* The state                                                               *)
(***************************************************************************)

MaxOpens == 2
MaxSaves == 1

\* the activations of loadparts followed, one inside the other; the graphs of
\* Archives nest three deep (see DepthWithinBound)
MaxDepth == 4

InPath   == <<"in", ".", "pptx">>
OutPath  == <<"out", ".", "pptx">>
Paths    == {InPath, OutPath}
SavePaths == {<<"out">>, OutPath}
Pkgs     == {"p1", "p2"}

\* the calls of open() made: on p1 for the archive given, and on p2 for the
\* archive p1 saves
Opens    == {<<"p1", InPath>>, <<"p2", OutPath>>}

VARIABLES
    disk,       \* file path -> the zip archive there, or None
    instances,  \* PartTypeSpec.__instances
    pkg,        \* Package instance -> [parts, relsitem]
    pc,         \* "idle", or "loadparts" inside a running open()
    cur,        \* the running open(): [p, path]
    cti,        \* the ContentTypesItem of the running open()
    stack,      \* the activations of loadparts: [baseURI, rels, i]
    visited,    \* part names handed to loadpart by the running or last open()
    status,     \* Package instance -> [opens, saves, last, err]
    saved,      \* the last save(): [p, path, err, package, fresh, status,
                \* existing, written, over_saved], the package, its status
                \* and the file at the path being those at the call, and
                \* over_saved telling that the file was left there by a
                \* save() that raised nothing (None: none yet)
    out         \* the last call made on a single object, and its result

vars == <<disk, instances, pkg, pc, cur, cti, stack, visited, status, saved, out>>

\* Package.__init__
Package == [parts |-> PartCollection, relsitem |-> None]

NoStatus == [opens |-> 0, saves |-> 0, last |-> "", err |-> NoErr]

\* nothing has been called yet, and the archive to open is one of archives
InitWith(archives) ==
    /\ disk \in {[p \in Paths |-> IF p = InPath THEN Some(z) ELSE None] : z \in archives}
    /\ instances = <<>>
    /\ pkg = [p \in Pkgs |-> Package]
    /\ pc = "idle"
    /\ cur = None
    /\ cti = None
    /\ stack = <<>>
    /\ visited = <<>>
    /\ status = [p \in Pkgs |-> NoStatus]
    /\ saved = None
    /\ out = None

Init == InitWith(Archives)

(***************************************************************************)
(* Package.open                                                            *)
(***************************************************************************)

\* FileSystem.__new__: the file system for the path, here always a zip
FileSystem(path) ==
    IF disk[path] = None THEN Raise(PackageNotFound) ELSE Ok(disk[path][1])

\* Package.open, its third statement: c is the loaded ContentTypesItem and
\* ri what loading the package relationships item gave
OpenRels(c, ri) ==
    IF ri.err # NoErr THEN ri ELSE Ok([cti |-> c, relsitem |-> ri.val])

\* Package.open, its second statement on: c is what ContentTypesItem().load gave
OpenCti(zip, c) ==
    IF c.err # NoErr THEN c ELSE Call2(OpenRels, c.val, PackageRelationshipsItemLoad(zip))

\* Package.open, its first statement on: fs is what FileSystem(path) gave
OpenFs(fs) ==
    IF fs.err # NoErr THEN fs ELSE Call2(OpenCti, fs.val, CtiLoad(ContentTypesItem, fs.val))

\* The part of Package.open before loadparts: the ContentTypesItem and the
\* package relationships item, or the first exception.
OpenItems(path) == Call1(OpenFs, FileSystem(path))

\* the activations left once every loop that has run out has returned
RECURSIVE Unwind(_)
Unwind(st) ==
    IF st = <<>> THEN st
    ELSE IF st[Len(st)].i > Len(st[Len(st)].rels)
    THEN Call1(Unwind, SubSeq(st, 1, Len(st) - 1))
    ELSE st

\* the innermost loop moves on to its next relationship
Advance(st) == [st EXCEPT ![Len(st)].i = @ + 1]

\* loadparts(fs, cti, rels) is called
Call(st, relsitem) ==
    Append(st, [baseURI |-> relsitem.baseURI, rels |-> relsitem.relationships.list, i |-> 1])

\* open() on p returns, or raises e
Returned(p, e) ==
    status' = [status EXCEPT ![p] = [@ EXCEPT !.opens = @ + 1, !.last = "open", !.err = e]]

OpenRaiseWith(p, items) ==
    /\ items.err # NoErr
    /\ Returned(p, items.err)
    /\ visited' = <<>>
    /\ UNCHANGED <<disk, instances, pkg, pc, cur, cti, stack, saved, out>>

\* open() raises before loadparts is reached
OpenRaise(p, path) ==
    /\ pc = "idle"
    /\ status[p].opens < MaxOpens
    /\ \E items \in {OpenItems(path)} : OpenRaiseWith(p, items)

\* loadparts goes on with the activations st; open() returns when none is left
Resume(p, path, c, st) ==
    IF st = <<>>
    THEN /\ pc' = "idle"
         /\ cur' = None
         /\ cti' = None
         /\ stack' = <<>>
         /\ Returned(p, NoErr)
    ELSE /\ pc' = "loadparts"
         /\ cur' = Some([p |-> p, path |-> path])
         /\ cti' = Some(c)
         /\ stack' = st
         /\ UNCHANGED status

\* open() as it would be if it began with an empty part collection
OpenEnterReset(p, path, items) ==
    /\ items.err = NoErr
    /\ pkg' = [pkg EXCEPT ![p] = [parts |-> PartCollection,
                                  relsitem |-> Some(items.val.relsitem)]]
    /\ visited' = <<>>
    /\ Resume(p, path, items.val.cti, Unwind(Call(<<>>, items.val.relsitem)))
    /\ UNCHANGED <<disk, instances, saved, out>>

OpenEnterWith(p, path, items) ==
    /\ items.err = NoErr
    /\ pkg' = [pkg EXCEPT ![p].relsitem = Some(items.val.relsitem)]
    /\ visited' = <<>>
    /\ Resume(p, path, items.val.cti, Unwind(Call(<<>>, items.val.relsitem)))
    /\ UNCHANGED <<disk, instances, saved, out>>

\* open() reads the manifest and the package relationships and calls loadparts
OpenEnter(p, path) ==
    /\ pc = "idle"
    /\ status[p].opens < MaxOpens
    /\ \E items \in {OpenItems(path)} : OpenEnterWith(p, path, items)

\* the target part name of the relationship the innermost loop of loadparts
\* is at
CurPartname ==
    target_partname(stack[Len(stack)].baseURI,
                    stack[Len(stack)].rels[stack[Len(stack)].i])

\* the loop body of loadparts is left with the activations st
Continue(st) == \E left \in {Unwind(st)} : Resume(cur[1].p, cur[1].path, cti[1], left)

LoadSkipAt(partname) ==
    /\ PartsContains(pkg[cur[1].p].parts, partname)
    /\ Continue(Advance(stack))
    /\ UNCHANGED <<disk, instances, pkg, visited, saved, out>>

\* loadparts: the target is already a part of the package
LoadSkip ==
    /\ pc = "loadparts"
    /\ \E partname \in {CurPartname} : LoadSkipAt(partname)

\* the loop body of loadparts after the lookup cti[partname] gave ct: the
\* result of loadpart, and whether it was called
LoadCallWith(partname, ct) ==
    IF ct.err # NoErr
    THEN [parts |-> pkg[cur[1].p].parts, instances |-> instances, err |-> ct.err,
          val |-> None, reads |-> <<>>, called |-> FALSE]
    ELSE Call5(loadpart, pkg[cur[1].p].parts, instances, disk[cur[1].path][1],
               partname, ct.val)
            @@ [called |-> TRUE]

\* the content type lookup and the loadpart call of the loop body
LoadCall(partname) == Call2(LoadCallWith, partname, CtiGetitem(cti[1], partname))

\* the activations once the part just loaded is back in the loop body
Recurse(st, part) ==
    IF part.relsitem # None /\ part.relsitem[1].relationships.list # <<>>
    THEN Call(st, part.relsitem[1])
    ELSE st

LoadNewWith(partname, r) ==
    /\ r.err = NoErr
    /\ Len(Recurse(Advance(stack), r.val)) <= MaxDepth
    /\ pkg' = [pkg EXCEPT ![cur[1].p].parts = r.parts]
    /\ instances' = r.instances
    /\ visited' = Append(visited, partname)
    /\ Continue(Recurse(Advance(stack), r.val))
    /\ UNCHANGED <<disk, saved, out>>

LoadNewAt(partname) ==
    /\ ~PartsContains(pkg[cur[1].p].parts, partname)
    /\ \E r \in {LoadCall(partname)} : LoadNewWith(partname, r)

\* loadparts: the target is loaded, and its relationships are walked
LoadNew ==
    /\ pc = "loadparts"
    /\ \E partname \in {CurPartname} : LoadNewAt(partname)

LoadRaiseWith(partname, r) ==
    /\ r.err # NoErr
    /\ instances' = r.instances
    /\ visited' = IF r.called THEN Append(visited, partname) ELSE visited
    /\ Returned(cur[1].p, r.err)
    /\ pc' = "idle"
    /\ cur' = None
    /\ cti' = None
    /\ stack' = <<>>
    /\ UNCHANGED <<disk, pkg, saved, out>>

LoadRaiseAt(partname) ==
    /\ ~PartsContains(pkg[cur[1].p].parts, partname)
    /\ \E r \in {LoadCall(partname)} : LoadRaiseWith(partname, r)

\* loadparts: the lookup or the load raises, and open() with it
LoadRaise ==
    /\ pc = "loadparts"
    /\ \E partname \in {CurPartname} : LoadRaiseAt(partname)

(***************************************************************************)
(* Package.save                                                            *)
(***************************************************************************)

\* save() as it would be if it emptied the part collection it has written
SaveWithCleared(p, np, r) ==
    /\ disk' = [disk EXCEPT ![np] = Some(r.zip)]
    /\ saved' = Some([p |-> p, path |-> np, err |-> r.err, package |-> pkg[p],
                      fresh |-> disk[np] = None, status |-> status[p],
                      existing |-> disk[np], written |-> r.written,
                      over_saved |-> FALSE])
    /\ status' = [status EXCEPT ![p] =
                     [@ EXCEPT !.saves = @ + 1, !.last = "save", !.err = r.err]]
    /\ pkg' = [pkg EXCEPT ![p].parts = PartCollection]
    /\ UNCHANGED <<instances, pc, cur, cti, stack, visited, out>>

SaveWith(p, np, r) ==
    /\ disk' = [disk EXCEPT ![np] = Some(r.zip)]
    /\ saved' = Some([p |-> p, path |-> np, err |-> r.err, package |-> pkg[p],
                      fresh |-> disk[np] = None, status |-> status[p],
                      existing |-> disk[np], written |-> r.written,
                      over_saved |-> /\ saved # None
                                     /\ saved[1].path = np
                                     /\ saved[1].err = NoErr])
    /\ status' = [status EXCEPT ![p] =
                     [@ EXCEPT !.saves = @ + 1, !.last = "save", !.err = r.err]]
    /\ UNCHANGED <<instances, pkg, pc, cur, cti, stack, visited, out>>

SaveAt(p, np) == \E r \in {save(pkg[p], instances, disk[np])} : SaveWith(p, np, r)

\* save() on p, for the path given
Save(p, path) ==
    /\ pc = "idle"
    /\ status[p].saves < MaxSaves
    /\ \E np \in {normalizedpath(path)} : SaveAt(p, np)

Next ==
    \/ \E o \in Opens : OpenRaise(o[1], o[2])
    \/ \E o \in Opens : OpenEnter(o[1], o[2])
    \/ LoadSkip
    \/ LoadNew
    \/ LoadRaise
    \/ \E path \in SavePaths : Save("p1", path)

Spec == Init /\ [][Next]_vars

\* the running open() is never refused an activation by MaxDepth
DepthWithinBound == Len(stack) < MaxDepth

\* the archives whose relationships hold a cycle: A points at itself or at
\* B, B points back at A, and every root reaches one of them; some with a
\* member that does not load
CyclicArchives ==
    {Archive(r, a, b, t, "none") :
        r \in {<<RootToA>>, <<RootToA, RootToB>>, <<RootToB, RootToC>>},
        a \in {Some(<<ToA>>), Some(<<ToB>>), Some(<<ToB, ToBDots, ToC>>)},
        b \in {Some(<<ToA>>), Some(<<ToC, ToA>>)},
        t \in {[a |-> CT_SLIDE, b |-> CT_THEME, png |-> CT_PNG],
               [a |-> CT_SLIDE, b |-> CT_SLIDE, png |-> CT_PNG]}}
    \cup
    {Archive(<<RootToA, RootToB>>, Some(<<ToB>>), Some(<<ToA>>),
             [a |-> CT_SLIDE, b |-> CT_THEME, png |-> CT_PNG], f) :
        f \in {"no_manifest", "dup_ids", "b_missing", "b_raw"}}

InitCyclic == InitWith(CyclicArchives)

\* the same calls on the cyclic archives, the running open() going on while
\* it can
FairSpec == InitCyclic /\ [][Next]_vars /\ WF_vars(LoadSkip \/ LoadNew \/ LoadRaise)

(***************************************************************************)
(* The package as a whole: open and save                                   *)
(***************************************************************************)

NoDuplicates(seq) == \A i, j \in DOMAIN seq : i # j => seq[i] # seq[j]

\* the part names of a part collection, in order
Partnames(parts) == [i \in DOMAIN parts.list |-> parts.list[i].partname]

PartnameSet(parts) == {parts.list[i].partname : i \in DOMAIN parts.list}

\* the part names the relationships of a rels item point at
Targets(relsitem) ==
    {target_partname(relsitem.baseURI, relsitem.relationships.list[i]) :
        i \in DOMAIN relsitem.relationships.list}

\* the part names the relationships of an optional rels item point at
TargetsOf(relsitem) == IF relsitem = None THEN {} ELSE Targets(relsitem[1])

\* the last call on p was an open() that returned
Opened(p) == pc = "idle" /\ status[p].last = "open" /\ status[p].err = NoErr

\* the last call on p was the first open() on it, and it returned
OpenedOnce(p) == Opened(p) /\ status[p].opens = 1

\* p1 was saved without error to a path that held nothing, being a package
\* its first open() had returned, and p2 has then opened what was saved
RoundTripped ==
    /\ saved # None
    /\ pc = "idle"
    /\ saved[1].p = "p1"
    /\ saved[1].err = NoErr
    /\ saved[1].fresh
    /\ saved[1].path = OutPath
    /\ saved[1].status.last = "open"
    /\ saved[1].status.err = NoErr
    /\ saved[1].status.opens = 1
    /\ status["p2"].last = "open"
    /\ status["p2"].err # PackageNotFound

SameRelationships(a, b) ==
    \/ a = None /\ b = None
    \/ a # None /\ b # None /\ a[1].relationships.list = b[1].relationships.list

SamePart(x, y) ==
    /\ x.typespec = y.typespec
    /\ x.element = y.element
    /\ x.blob = y.blob
    /\ SameRelationships(x.relsitem, y.relsitem)

SamePackage(a, b) ==
    /\ PartnameSet(a.parts) = PartnameSet(b.parts)
    /\ DOMAIN a.parts.partname_dict = DOMAIN b.parts.partname_dict
    /\ \A n \in DOMAIN a.parts.partname_dict \cap DOMAIN b.parts.partname_dict :
          SamePart(a.parts.partname_dict[n], b.parts.partname_dict[n])
    /\ SameRelationships(a.relsitem, b.relsitem)

\* C1: a package that was opened, saved to a fresh path and opened from
\* there in a fresh Package comes back with the same part names, the same
\* content type, relationships and body for each part, and the same package
\* relationships.
C1_RoundTrip ==
    RoundTripped => /\ status["p2"].err = NoErr
                    /\ SamePackage(saved[1].package, pkg["p2"])

\* C2: during one open() no part name is handed to loadpart twice, each part
\* is in the collection once, under its name, and open() never fails for a
\* duplicate part, however the relationships converge or cycle.
C2_AtMostOnce ==
    /\ NoDuplicates(visited)
    /\ \A p \in Pkgs :
          /\ NoDuplicates(Partnames(pkg[p].parts))
          /\ DOMAIN pkg[p].parts.partname_dict = PartnameSet(pkg[p].parts)
          /\ status[p].last = "open" => status[p].err # DuplicatePart

\* an open() has returned for a graph in which two relationships of the
\* package point at one part, which was loaded once
C2_Witness ==
    /\ OpenedOnce("p1")
    /\ pkg["p1"].relsitem # None
    /\ Len(pkg["p1"].relsitem[1].relationships.list) = 2
    /\ Targets(pkg["p1"].relsitem[1]) = {PartA}
    /\ PartA \in PartnameSet(pkg["p1"].parts)

\* C3: the walk of loadparts ends, open() returning or raising, whatever
\* cycles the relationships hold.
C3_Terminates == (pc = "loadparts") ~> (pc = "idle")

\* an open() has returned for a graph in which two parts point at each other
C3_Witness ==
    /\ OpenedOnce("p1")
    /\ \E i, j \in DOMAIN pkg["p1"].parts.list :
          /\ i # j
          /\ pkg["p1"].parts.list[j].partname \in TargetsOf(pkg["p1"].parts.list[i].relsitem)
          /\ pkg["p1"].parts.list[i].partname \in TargetsOf(pkg["p1"].parts.list[j].relsitem)

\* the part names the relationships of the package and of its parts point at
AllTargets(package) ==
    TargetsOf(package.relsitem)
        \cup UNION {TargetsOf(package.parts.list[i].relsitem) : i \in DOMAIN package.parts.list}

\* the part names reached from the set S by the relationships of the parts
RECURSIVE ReachedFrom(_, _)
ReachedFrom(package, S) ==
    LET T == S \cup UNION {TargetsOf(package.parts.list[i].relsitem) :
                              i \in {k \in DOMAIN package.parts.list :
                                        package.parts.list[k].partname \in S}}
    IN  IF T = S THEN S ELSE ReachedFrom(package, T)

Reachable(package) == ReachedFrom(package, TargetsOf(package.relsitem))

\* C4: once open() has returned, the parts of the package are the part names
\* reachable from the package relationships, no more and no fewer, and every
\* relationship of the package and of a part points at a part of the package.
C4_Complete ==
    \A p \in Pkgs :
        Opened(p) => /\ PartnameSet(pkg[p].parts) = Reachable(pkg[p])
                     /\ AllTargets(pkg[p]) \subseteq PartnameSet(pkg[p].parts)

\* the same, of a Package on which open() is called for the first time
C4_CompleteOnce ==
    \A p \in Pkgs :
        OpenedOnce(p) => /\ PartnameSet(pkg[p].parts) = Reachable(pkg[p])
                         /\ AllTargets(pkg[p]) \subseteq PartnameSet(pkg[p].parts)

\* the archive the open() calls on p read
ArchiveOf(p) == disk[(CHOOSE o \in Opens : o[1] = p)[2]][1]

\* what loading the member partname of the archive gives a Package that has
\* loaded nothing yet: the content type lookup, then PartCollection.loadpart
LoadOf(zip, partname) ==
    Call2(LAMBDA name, ct :
              IF ct.err # NoErr THEN Failed(<<>>, ct.err, <<>>)
              ELSE PartLoad(<<>>, zip, name, ct.val),
          partname,
          CtiGetitem(CtiLoad(ContentTypesItem, zip).val, partname))

\* the part names the relationships of that member point at, if it loads
TargetsIn(zip, partname) ==
    Call1(LAMBDA r : IF r.err # NoErr THEN {} ELSE TargetsOf(r.val.relsitem),
          LoadOf(zip, partname))

\* the members reached from the set S by the relationships of those that load
RECURSIVE MembersFrom(_, _)
MembersFrom(zip, S) ==
    Call1(LAMBDA T : IF T = S THEN S ELSE MembersFrom(zip, T),
          S \cup UNION {TargetsIn(zip, q) : q \in S})

\* the members of the archive reachable from its package relationships
Members(zip) == MembersFrom(zip, Targets(PackageRelationshipsItemLoad(zip).val))

\* C5: open() returns only if every member reachable from the package
\* relationships loads; a member that fails to load makes open() fail, and is
\* never left out of a package that open() returns.
C5_AllOrNothing ==
    \A p \in Pkgs :
        Opened(p) => \A q \in Members(ArchiveOf(p)) :
                        /\ LoadOf(ArchiveOf(p), q).err = NoErr
                        /\ q \in PartnameSet(pkg[p].parts)

\* the same, of a Package on which open() is called for the first time
C5_AllOrNothingOnce ==
    \A p \in Pkgs :
        OpenedOnce(p) => \A q \in Members(ArchiveOf(p)) :
                            /\ LoadOf(ArchiveOf(p), q).err = NoErr
                            /\ q \in PartnameSet(pkg[p].parts)

(***************************************************************************)
(* Single objects: a ContentTypesItem, a RelationshipCollection and a      *)
(* PartCollection, each called on its own.  The variable out holds the     *)
(* object as the last call left it (self), the call (op, arg), what it     *)
(* raised or returned (err, val) and the object as it was before the call  *)
(* (before); the variables of the package stay as they are.                *)
(***************************************************************************)

Made(self, op, arg, r, before) ==
    Some([self |-> self, op |-> op, arg |-> arg, err |-> r.err, val |-> r.val,
          before |-> before])

\* nothing of the package is running or has run
PackageIdle ==
    /\ instances = <<>>
    /\ pkg = [p \in Pkgs |-> Package]
    /\ pc = "idle"
    /\ cur = None
    /\ cti = None
    /\ stack = <<>>
    /\ visited = <<>>
    /\ status = [p \in Pkgs |-> NoStatus]
    /\ saved = None

\* ------------------------------------------------------ ContentTypesItem

UpperC == <<"/", "ppt", "/", "c", ".", "PNG">>
NoExt  == <<"/", "ppt", "/", "a">>

\* the part names looked up
Lookups == {PartA, PartB, PartC, UpperC, NoExt}

\* the manifests an item is loaded from: a Default for xml or none, a Default
\* for png under either spelling or none, Overrides for A and C or none
CtiDocs ==
    {TypesDoc(Entry(<<"xml">>, x) \o Entry(y[1], y[2]), Entry(PartA, a) \o Entry(PartC, c)) :
        x \in {NoEntry, CT_XML},
        y \in {<<<<"png">>, NoEntry>>, <<<<"png">>, CT_PNG>>, <<<<"PNG">>, CT_PNG>>},
        a \in {NoEntry, CT_SLIDE},
        c \in {NoEntry, CT_JPEG}}

\* the archives load() reads: one per manifest, one without a manifest and
\* one whose manifest is not XML
CtiArchives ==
    {Member(TRUE, ContentTypesURI, d) : d \in CtiDocs}
        \cup {<<>>, Member(TRUE, ContentTypesURI, RawBody("notxml"))}

\* the parts compose() is given: what it reads of a part is its name and the
\* content type of its typespec
MaxComposed == 2
ComposedPart(partname, ct) ==
    [partname |-> partname, typespec |-> ct, blob |-> None, element |-> None,
     relsitem |-> None]
ComposedParts ==
    {ComposedPart(PartA, CT_SLIDE), ComposedPart(PartB, CT_THEME),
     ComposedPart(PartC, CT_JPEG), ComposedPart(UpperC, CT_PNG)}
ComposedLists ==
    UNION {[1..n -> ComposedParts] : n \in 0..MaxComposed}

InitCTI ==
    /\ disk = [p \in Paths |-> None]
    /\ PackageIdle
    /\ out = Made(ContentTypesItem, "init", None, Ok(None), ContentTypesItem)

CtiLoadDone(self, zip, r) ==
    /\ out' = Made(IF r.err = NoErr THEN r.val ELSE self, "load", zip, r, self)
    /\ UNCHANGED <<disk, instances, pkg, pc, cur, cti, stack, visited, status, saved>>

\* item.load(fs)
CtiLoadCall(zip) == \E r \in {CtiLoad(out[1].self, zip)} : CtiLoadDone(out[1].self, zip, r)

CtiComposeDone(self, parts, r) ==
    /\ out' = Made(r.self, "compose", parts, r, self)
    /\ UNCHANGED <<disk, instances, pkg, pc, cur, cti, stack, visited, status, saved>>

\* item.compose(parts)
CtiComposeCall(parts) ==
    \E r \in {compose(out[1].self, parts)} : CtiComposeDone(out[1].self, parts, r)

CtiGetitemDone(self, partname, r) ==
    /\ out' = Made(self, "getitem", partname, r, self)
    /\ UNCHANGED <<disk, instances, pkg, pc, cur, cti, stack, visited, status, saved>>

\* item[partname]
CtiGetitemCall(partname) ==
    \E r \in {CtiGetitem(out[1].self, partname)} : CtiGetitemDone(out[1].self, partname, r)

NextCTI ==
    \/ \E zip \in CtiArchives : CtiLoadCall(zip)
    \/ \E parts \in ComposedLists : CtiComposeCall(parts)
    \/ \E partname \in Lookups : CtiGetitemCall(partname)

SpecCTI == InitCTI /\ [][NextCTI]_vars

\* the last call was item[partname] on an item that was loaded or composed
Resolved ==
    /\ out[1].op = "getitem"
    /\ out[1].self.defaults # None
    /\ out[1].self.overrides # None

\* the extension of the part name looked up, without its dot
LookedUpExt ==
    IF splitext(out[1].arg)[2] = <<>> THEN <<>> ELSE Tail(splitext(out[1].arg)[2])

\* str.lower
Lower(str) == [i \in DOMAIN str |-> IF str[i] = "PNG" THEN "png" ELSE str[i]]

\* C6: a part name that has an override resolves to the override's content
\* type, whatever the defaults hold for its extension.
C6_OverrideWins ==
    (Resolved /\ out[1].arg \in DOMAIN out[1].self.overrides[1])
        => /\ out[1].err = NoErr
           /\ out[1].val = out[1].self.overrides[1][out[1].arg]

\* a part name was resolved that has an override, and a default with another
\* content type for its extension
C6_Witness ==
    /\ Resolved
    /\ out[1].arg \in DOMAIN out[1].self.overrides[1]
    /\ LookedUpExt \in DOMAIN out[1].self.defaults[1]
    /\ out[1].self.defaults[1][LookedUpExt] # out[1].self.overrides[1][out[1].arg]
    /\ out[1].val = out[1].self.overrides[1][out[1].arg]

\* C7: a part name without an override resolves to the default held for its
\* extension in lower case, so '.PNG' resolves as '.png' does.
C7_LowerCased ==
    (/\ Resolved
     /\ out[1].arg \notin DOMAIN out[1].self.overrides[1]
     /\ Lower(LookedUpExt) \in DOMAIN out[1].self.defaults[1])
        => /\ out[1].err = NoErr
           /\ out[1].val = out[1].self.defaults[1][Lower(LookedUpExt)]

\* the same, of part names whose extension is in lower case already
C7_ExactCase ==
    (/\ Resolved
     /\ out[1].arg \notin DOMAIN out[1].self.overrides[1]
     /\ Lower(LookedUpExt) = LookedUpExt
     /\ LookedUpExt \in DOMAIN out[1].self.defaults[1])
        => /\ out[1].err = NoErr
           /\ out[1].val = out[1].self.defaults[1][LookedUpExt]

\* C8: resolving a part name that has no override and whose extension has no
\* default raises the lookup error, and so does resolving any part name on an
\* item that was neither loaded nor composed; nothing is returned then.
C8_NotFound ==
    out[1].op = "getitem" =>
        /\ (out[1].self.defaults = None \/ out[1].self.overrides = None)
              => out[1].err = NotLoaded /\ out[1].val = None
        /\ (/\ Resolved
            /\ out[1].arg \notin DOMAIN out[1].self.overrides[1]
            /\ LookedUpExt \notin DOMAIN out[1].self.defaults[1]
            /\ Lower(LookedUpExt) \notin DOMAIN out[1].self.defaults[1])
              => out[1].err = NoContentType /\ out[1].val = None

\* a part name was looked up in a loaded item that holds other overrides and
\* other defaults, but none for it
C8_Witness ==
    /\ Resolved
    /\ DOMAIN out[1].self.overrides[1] # {}
    /\ DOMAIN out[1].self.defaults[1] # {}
    /\ out[1].arg \notin DOMAIN out[1].self.overrides[1]
    /\ LookedUpExt \notin DOMAIN out[1].self.defaults[1]
    /\ Lower(LookedUpExt) \notin DOMAIN out[1].self.defaults[1]
    /\ out[1].err = NoContentType

\* ------------------------------------------------ RelationshipCollection

RelElements ==
    {[ns |-> "pr", tag |-> "Relationship",
      attrs |-> [Id |-> id, Type |-> reltype, Target |-> target]] :
        id \in {"rId1", "rId2", "rId3"}, reltype \in {"rt", "rt2"}, target \in {ToA, ToB}}

InitRels ==
    /\ disk = [p \in Paths |-> None]
    /\ PackageIdle
    /\ out = Made(RelationshipCollection, "init", None, Ok(None), RelationshipCollection)

AdditemDone(self, rel_elm, r) ==
    /\ out' = Made(r.self, "additem", rel_elm, r, self)
    /\ UNCHANGED <<disk, instances, pkg, pc, cur, cti, stack, visited, status, saved>>

\* collection.additem(rel_elm)
AdditemCall(rel_elm) ==
    \E r \in {additem(out[1].self, rel_elm)} : AdditemDone(out[1].self, rel_elm, r)

RelGetitemDone(self, key, r) ==
    /\ out' = Made(self, "getitem", key, r, self)
    /\ UNCHANGED <<disk, instances, pkg, pc, cur, cti, stack, visited, status, saved>>

\* collection.getitem(key)
RelGetitemCall(key) ==
    \E r \in {RelGetitem(out[1].self, key)} : RelGetitemDone(out[1].self, key, r)

NextRels ==
    \/ \E rel_elm \in RelElements : AdditemCall(rel_elm)
    \/ \E key \in {"rId1", "rId2", "rId3"} : RelGetitemCall(key)

SpecRels == InitRels /\ [][NextRels]_vars

\* the rIds of a collection, in order
RIdsOf(coll) == [i \in DOMAIN coll.list |-> coll.list[i].rId]

\* C10: additem of a relationship whose rId the collection holds raises the
\* duplicate key error and leaves the collection as it was; the rIds of a
\* collection are pairwise distinct, and its list and its index by rId hold
\* the same relationships.
C10_DuplicateId ==
    /\ NoDuplicates(RIdsOf(out[1].self))
    /\ DOMAIN out[1].self.id_dict = {out[1].self.list[i].rId : i \in DOMAIN out[1].self.list}
    /\ \A i \in DOMAIN out[1].self.list :
          out[1].self.id_dict[out[1].self.list[i].rId] = out[1].self.list[i]
    /\ (out[1].op = "additem" /\ out[1].arg.attrs.Id \in DOMAIN out[1].before.id_dict)
          => /\ out[1].err = DuplicateRel
             /\ out[1].self = out[1].before

\* additem was refused for a collection of two relationships, the rId given
\* being that of the first
C10_Witness ==
    /\ out[1].op = "additem"
    /\ Len(out[1].before.list) = 2
    /\ out[1].arg.attrs.Id = out[1].before.list[1].rId
    /\ out[1].arg.attrs.Target # out[1].before.list[1].target
    /\ out[1].err = DuplicateRel

\* -------------------------------------------------------- PartCollection

\* a part in the root directory of the package, and its relationships item
PartD == <<"/", "d", ".", "xml">>
RelsD == <<"/", "_rels", "/", "d", ".", "xml", ".", "rels">>

\* the archives loadpart reads: those of a sound manifest, no part missing,
\* the parts A and D each with its relationships item or without
PartArchives ==
    {Archive(<<RootToA>>, a, None, [a |-> CT_SLIDE, b |-> CT_THEME, png |-> CT_PNG], "none")
        @@ Member(TRUE, PartD, XmlBody("bodyD"))
        @@ Member(d # None, RelsD, RelsDoc(IF d = None THEN <<>> ELSE d[1], RIds)) :
        a \in {None, Some(<<ToB>>)}, d \in {None, Some(<<RootToA>>)}}

\* the part names loadpart and getitem are given
PartNames == {PartA, PartB, PartC, PartD}

\* the calls of loadpart made, as <<partname, content_type>>: each part as a
\* type that always has relationships, may have them or never has them, a
\* binary part as an XML type, and one content type of no part type
LoadCalls ==
    {<<PartA, CT_SLIDE>>, <<PartA, CT_THEME>>, <<PartA, CT_PROPS>>,
     <<PartB, CT_THEME>>, <<PartB, CT_XML>>,
     <<PartC, CT_PNG>>, <<PartC, CT_SLIDE>>,
     <<PartD, CT_SLIDE>>, <<PartD, CT_THEME>>}

InitParts ==
    /\ disk \in {[p \in Paths |-> IF p = InPath THEN Some(z) ELSE None] : z \in PartArchives}
    /\ PackageIdle
    /\ out = Made(PartCollection, "init", None, Ok(None), PartCollection)

LoadpartDone(self, partname, content_type, r) ==
    /\ out' = Some([self |-> r.parts, op |-> "loadpart", arg |-> partname,
                    err |-> r.err, val |-> r.val, before |-> self,
                    content_type |-> content_type, reads |-> r.reads,
                    cached |-> instances])
    /\ instances' = r.instances
    /\ UNCHANGED <<disk, pkg, pc, cur, cti, stack, visited, status, saved>>

\* parts.loadpart(fs, partname, content_type)
LoadpartCall(partname, content_type) ==
    \E r \in {loadpart(out[1].self, instances, disk[InPath][1], partname, content_type)} :
        LoadpartDone(out[1].self, partname, content_type, r)

PartsGetitemDone(self, partname, r) ==
    /\ out' = Made(self, "getitem", partname, r, self)
    /\ UNCHANGED <<disk, instances, pkg, pc, cur, cti, stack, visited, status, saved>>

\* parts.getitem(partname)
PartsGetitemCall(partname) ==
    \E r \in {PartsGetitem(out[1].self, partname)} : PartsGetitemDone(out[1].self, partname, r)

NextParts ==
    \/ \E c \in LoadCalls : LoadpartCall(c[1], c[2])
    \/ \E partname \in PartNames : PartsGetitemCall(partname)

SpecParts == InitParts /\ [][NextParts]_vars

\* C9: loadpart for a part name the collection holds raises the duplicate
\* key error before anything is read from the archive, and leaves the list of
\* the collection and its index by part name as they were.
C9_DuplicatePart ==
    (out[1].op = "loadpart" /\ out[1].arg \in DOMAIN out[1].before.partname_dict)
        => /\ out[1].err = DuplicatePart
           /\ out[1].reads = <<>>
           /\ out[1].self = out[1].before
           /\ instances = out[1].cached

\* loadpart was refused for a collection of two parts, the part name given
\* being that of the first, and the content type another than it has
C9_Witness ==
    /\ out[1].op = "loadpart"
    /\ Len(out[1].before.list) = 2
    /\ out[1].arg = out[1].before.list[1].partname
    /\ out[1].content_type # out[1].before.list[1].typespec
    /\ out[1].err = DuplicatePart

\* the last call was loadpart, for a part name the collection did not hold
\* and a content type of pml_parttypes
Loadparted ==
    /\ out[1].op = "loadpart"
    /\ out[1].arg \notin DOMAIN out[1].before.partname_dict
    /\ out[1].content_type \in DOMAIN pml_parttypes

\* the package item that holds the relationships of the part of that name:
\* <dir>/_rels/<file>.rels
Companion(partname) ==
    LET i == RFind(partname, "/")
    IN  SubSeq(partname, 1, i) \o <<"_rels", "/">>
            \o SubSeq(partname, i + 1, Len(partname)) \o DotRels

\* the body of the part of that name can be read as the content type asks
BodyReads(zip, partname, content_type) ==
    IF pml_parttypes[content_type].ext = DotXml
    THEN getelement(zip, partname).err = NoErr
    ELSE getstream(zip, partname).err = NoErr

\* C11: loadpart for a part whose type always has relationships, whose body
\* is read and whose relationships item <dir>/_rels/<file>.rels is not in
\* the archive raises CorruptedPackageError, and the collection does not
\* hold the part afterwards.
C11_MandatoryRels ==
    (/\ Loadparted
     /\ pml_parttypes[out[1].content_type].has_rels = "always"
     /\ BodyReads(disk[InPath][1], out[1].arg, out[1].content_type)
     /\ Companion(out[1].arg) \notin itemURIs(disk[InPath][1]))
        => /\ out[1].err = Corrupted
           /\ out[1].self = out[1].before
           /\ out[1].arg \notin PartnameSet(out[1].self)

\* loadpart was refused for the slide A, whose relationships item the
\* archive lacks, the collection holding another part already
C11_Witness ==
    /\ Loadparted
    /\ out[1].arg = PartA
    /\ out[1].content_type = CT_SLIDE
    /\ RelsA \notin itemURIs(disk[InPath][1])
    /\ out[1].before.list # <<>>
    /\ out[1].err = Corrupted
    /\ out[1].self = out[1].before

\* ------------------------------------------------- Relationship targets

Slide1  == <<"/", "ppt", "/", "slides", "/", "slide1", ".", "xml">>
Layout1 == <<"/", "ppt", "/", "slideLayouts", "/", "slideLayout1", ".", "xml">>
ToLayout1 == <<".", ".", "/", "slideLayouts", "/", "slideLayout1", ".", "xml">>

\* the owners of the relationships items loaded: the package (None) or a part
Owners == {None, Some(PartA), Some(Slide1)}

\* the targets the relationships hold: plain, with '.' and '..' segments,
\* climbing above the root, absolute, and with a doubled slash
ResTargets ==
    {ToLayout1, ToA, RootToB, ToBDots, RootToAAbs,
     <<".", "/", "c", ".", "png">>,
     <<".", ".", "/", ".", ".", "/", ".", ".", "/", "a", ".", "xml">>,
     <<"ppt", "/", "/", "slides", "/", ".", ".", "/", "b", ".", "xml">>}

\* the relationships of one item, at most
MaxRels == 2

\* the relationships items of the owners, as their lists of targets
TargetLists == UNION {[1..n -> ResTargets] : n \in 0..MaxRels}

\* the URI of the relationships item of an owner
OwnerRelsURI(owner) ==
    IF owner = None THEN PackageRelsURI
    ELSE split(owner[1])[1] \o <<"/", "_rels", "/">> \o split(owner[1])[2] \o DotRels

InitRes ==
    /\ disk = [p \in Paths |-> None]
    /\ PackageIdle
    /\ out = Made(None, "init", None, Ok(None), None)

ResLoadDone(owner, r) ==
    /\ out' = Made(IF r.err = NoErr THEN Some(r.val) ELSE None, "load", owner, r, None)
    /\ UNCHANGED <<disk, instances, pkg, pc, cur, cti, stack, visited, status, saved>>

\* PackageRelationshipsItem().load(fs), or PartRelationshipsItem().load(part,
\* fs, itemURI) for the part that owns the item
ResLoadCall(owner, targets) ==
    /\ out[1].self = None
    /\ \E r \in {IF owner = None
              THEN PackageRelationshipsItemLoad(
                       Member(TRUE, OwnerRelsURI(owner), RelsDoc(targets, RIds)))
              ELSE PartRelationshipsItemLoad(owner[1],
                       Member(TRUE, OwnerRelsURI(owner), RelsDoc(targets, RIds)),
                       OwnerRelsURI(owner))} :
          ResLoadDone(owner, r)

ResolveDone(self, i, r) ==
    /\ out' = Made(self, "target_partname", i, r, self)
    /\ UNCHANGED <<disk, instances, pkg, pc, cur, cti, stack, visited, status, saved>>

\* rel.target_partname, for the i-th relationship of the item loaded
ResolveCall(i) ==
    /\ out[1].self # None
    /\ i \in 1..Len(out[1].self[1].relationships.list)
    /\ \E r \in {Ok(target_partname(out[1].self[1].baseURI,
                                     out[1].self[1].relationships.list[i]))} :
          ResolveDone(out[1].self, i, r)

NextRes ==
    \/ \E owner \in Owners, targets \in TargetLists : ResLoadCall(owner, targets)
    \/ \E i \in 1..(MaxRels + 1) : ResolveCall(i)

SpecRes == InitRes /\ [][NextRes]_vars

\* the segments a walk from the segments acc along comps ends at: '.' and
\* empty segments stay, '..' steps back, never above the root
RECURSIVE Walk(_, _)
Walk(comps, acc) ==
    IF comps = <<>> THEN acc
    ELSE IF Head(comps) = <<>> \/ Head(comps) = <<".">> THEN Walk(Tail(comps), acc)
    ELSE IF Head(comps) = DotDot
    THEN Walk(Tail(comps), IF acc = <<>> THEN acc ELSE SubSeq(acc, 1, Len(acc) - 1))
    ELSE Walk(Tail(comps), Append(acc, Head(comps)))

\* the segments of the target reached from the base directory
WalkFrom(base, target) ==
    IF isabs(target) THEN Walk(SplitSlash(target), <<>>)
    ELSE Walk(SplitSlash(target), Walk(SplitSlash(base), <<>>))

\* the directory of an owner: '/' for the package, the directory part of the
\* part name for a part
BaseDirectory(owner) ==
    IF owner = None THEN <<"/">>
    ELSE SubSeq(owner[1], 1, RFind(owner[1], "/") - 1)

\* the path without its leading slashes
RECURSIVE LStripSlash(_)
LStripSlash(path) ==
    IF path # <<>> /\ Head(path) = "/" THEN LStripSlash(Tail(path)) ELSE path

\* the last call resolved the target of a relationship; the owner of the
\* item is the argument of the load before
ResolvedTarget == out[1].op = "target_partname"

ResolvedRel == out[1].self[1].relationships.list[out[1].arg]

\* the owner of the item loaded, read back from its URI
OwnerOf(relsitem) == CHOOSE o \in Owners : OwnerRelsURI(o) = relsitem.itemURI

\* C12: the target part name of a relationship is the path reached from the
\* base directory of its owner ('/' for the package, the directory of the
\* part for a part) along the target: it is absolute, holds no '.', '..' or
\* empty segment, and for the part /ppt/slides/slide1.xml and the target
\* ../slideLayouts/slideLayout1.xml it is /ppt/slideLayouts/slideLayout1.xml.
C12_TargetResolution ==
    ResolvedTarget =>
        LET owner == OwnerOf(out[1].self[1])
            segs  == SplitSlash(LStripSlash(out[1].val))
        IN  /\ out[1].err = NoErr
            /\ isabs(out[1].val)
            /\ \A k \in 1..Len(segs) : segs[k] \notin {<<>>, <<".">>, DotDot}
            /\ segs = WalkFrom(BaseDirectory(owner), ResolvedRel.target)
            /\ (owner = Some(Slide1) /\ ResolvedRel.target = ToLayout1)
                    => out[1].val = Layout1

\* the second relationship of /ppt/slides/slide1.xml, whose target is
\* ../slideLayouts/slideLayout1.xml, was resolved to
\* /ppt/slideLayouts/slideLayout1.xml
C12_Witness ==
    /\ ResolvedTarget
    /\ out[1].self[1].itemURI = OwnerRelsURI(Some(Slide1))
    /\ out[1].arg = 2
    /\ ResolvedRel.target = ToLayout1
    /\ out[1].val = Layout1

\* ---------------------------------------------------------- PartTypeSpec

\* the content types looked up: two of pml_parttypes and two of no part type
SpecTypes == {CT_SLIDE, CT_PNG, CT_XML, CT_RELS}

\* the lookups of one content type that are counted
MaxCounted == 2

\* Here out holds the last lookup (arg, err, val: the identity of the
\* instance returned) and, for each content type, the identities of the
\* instances its lookups returned and how many lookups did return.
InitPTS ==
    /\ disk = [p \in Paths |-> None]
    /\ PackageIdle
    /\ out = Some([op |-> "init", arg |-> None, err |-> NoErr, val |-> None,
                   returned |-> [c \in SpecTypes |-> {}],
                   count |-> [c \in SpecTypes |-> 0]])

PartTypeSpecDone(content_type, r) ==
    /\ instances' = r.instances
    /\ out' = Some([op |-> "PartTypeSpec", arg |-> content_type, err |-> r.err,
                    val |-> r.inst,
                    returned |-> IF r.err # NoErr THEN out[1].returned
                                 ELSE [out[1].returned EXCEPT ![content_type] = @ \cup {r.inst[1]}],
                    count |-> IF r.err # NoErr \/ out[1].count[content_type] = MaxCounted
                              THEN out[1].count
                              ELSE [out[1].count EXCEPT ![content_type] = @ + 1]])
    /\ UNCHANGED <<disk, pkg, pc, cur, cti, stack, visited, status, saved>>

\* PartTypeSpec(content_type)
PartTypeSpecCall(content_type) ==
    \E r \in {PartTypeSpec(instances, content_type)} : PartTypeSpecDone(content_type, r)

NextPTS == \E content_type \in SpecTypes : PartTypeSpecCall(content_type)

SpecPTS == InitPTS /\ [][NextPTS]_vars

\* C13: the cache holds one instance for a content type at most, no
\* instance for two content types, and every lookup of a content type that
\* returns gives the one instance the cache holds for it.
C13_CacheIdentity ==
    /\ \A c, d \in DOMAIN instances : instances[c].id = instances[d].id => c = d
    /\ \A c \in SpecTypes :
          out[1].returned[c] # {}
              => /\ c \in DOMAIN instances
                 /\ out[1].returned[c] = {instances[c].id}

\* two content types are cached, and two lookups at least of one of them
\* have returned its instance
C13_Witness ==
    /\ out[1].op = "PartTypeSpec"
    /\ out[1].err = NoErr
    /\ Cardinality(DOMAIN instances) >= 2
    /\ out[1].count[out[1].arg] >= 2
    /\ out[1].arg \in DOMAIN pml_parttypes
    /\ out[1].returned[out[1].arg] = {out[1].val[1]}

\* C14: a lookup of a content type that pml_parttypes does not hold raises
\* the unknown content type error, the first time and every time after, and
\* returns no instance.
C14_UnknownType ==
    (out[1].op = "PartTypeSpec" /\ out[1].arg \notin DOMAIN pml_parttypes)
        => /\ out[1].err = UnknownType
           /\ out[1].val = None

\* C14, for the first lookup of a content type: the instance made for it is
\* not yet in the cache
C14_UnknownTypeFirst ==
    (/\ out[1].op = "PartTypeSpec"
     /\ out[1].arg \notin DOMAIN pml_parttypes
     /\ out[1].returned[out[1].arg] = {})
        => /\ out[1].err = UnknownType
           /\ out[1].val = None

\* -------------------------------------------------------- ZipFileSystem

\* the item URIs written to, and the bodies written
WriteURIs     == {ContentTypesURI, PartA, PartC}
WriteBlobs    == {RawBody("x"), RawBody("y")}
WriteElements == {parse(XmlBody("p")), parse(XmlBody("q"))}

\* Here out[1].self is the archive at the path of the file system.
InitZip ==
    /\ disk = [p \in Paths |-> None]
    /\ PackageIdle
    /\ out = Made(new(None), "new", None, Ok(None), None)

ZipWritten(self, op, arg, w) ==
    /\ out' = Made(IF w.err = NoErr THEN w.val ELSE self, op, arg,
                   [err |-> w.err, val |-> None], self)
    /\ UNCHANGED <<disk, instances, pkg, pc, cur, cti, stack, visited, status, saved>>

\* fs.new()
ZipNewCall ==
    /\ out' = Made(new(Some(out[1].self)), "new", None, Ok(None), out[1].self)
    /\ UNCHANGED <<disk, instances, pkg, pc, cur, cti, stack, visited, status, saved>>

\* fs.write_blob(blob, itemURI)
WriteBlobCall(blob, itemURI) ==
    \E w \in {write_blob(out[1].self, blob, itemURI)} :
        ZipWritten(out[1].self, "write_blob", itemURI, w)

\* fs.write_element(element, itemURI)
WriteElementCall(element, itemURI) ==
    \E w \in {write_element(out[1].self, element, itemURI)} :
        ZipWritten(out[1].self, "write_element", itemURI, w)

NextZip ==
    \/ ZipNewCall
    \/ \E blob \in WriteBlobs, itemURI \in WriteURIs : WriteBlobCall(blob, itemURI)
    \/ \E element \in WriteElements, itemURI \in WriteURIs :
          WriteElementCall(element, itemURI)

SpecZip == InitZip /\ [][NextZip]_vars

\* the last call wrote, or was to write, an item
WriteCalled == out[1].op \in {"write_blob", "write_element"}

\* C15: write_blob and write_element for an item URI the archive holds
\* raise the duplicate item error and leave the archive as it was; whatever
\* a write does, every item the archive held is still there with its bytes.
C15_AppendOnly ==
    WriteCalled =>
        /\ out[1].arg \in itemURIs(out[1].before)
              => /\ out[1].err = DuplicateItem
                 /\ out[1].self = out[1].before
        /\ \A name \in DOMAIN out[1].before :
              /\ name \in DOMAIN out[1].self
              /\ out[1].self[name] = out[1].before[name]

\* a write to an item the archive of two items holds was refused
C15_Witness ==
    /\ WriteCalled
    /\ Cardinality(DOMAIN out[1].before) = 2
    /\ out[1].arg \in itemURIs(out[1].before)
    /\ out[1].err = DuplicateItem
    /\ out[1].self = out[1].before

\* ---------------------------------------------------------- Package.save

\* the calls of Spec, and save() on a second package
NextResave ==
    \/ Next
    \/ \E path \in SavePaths : Save("p2", path)

\* the archives of the packages saved: of one part or of three, the slide A
\* with its relationships item or without
ResaveArchives ==
    {Archive(r, a, None, [a |-> CT_SLIDE, b |-> CT_THEME, png |-> CT_PNG], "none") :
        r \in {<<RootToA>>, <<RootToB, RootToC>>, <<RootToA, RootToB>>},
        a \in {None, Some(<<ToB>>), Some(<<ToB, ToBDots, ToC>>)}}

\* two packages, each saved to the one path
SpecResave == InitWith(ResaveArchives) /\ [][NextResave]_vars

\* C16: save() to a path that holds the archive of an earlier save() that
\* raised nothing leaves that archive as it was, neither replaced nor
\* truncated.
C16_NoOverwrite ==
    (saved # None /\ saved[1].existing # None /\ saved[1].over_saved)
        => disk[saved[1].path] = saved[1].existing

\* the items save() is to write for the parts of the list, in order: each
\* part under its name, then its relationships item if it has one
RECURSIVE PartWrites(_)
PartWrites(list) ==
    IF list = <<>> THEN <<>>
    ELSE <<Head(list).partname>>
            \o (IF Head(list).relsitem = None THEN <<>>
                ELSE <<Companion(Head(list).partname)>>)
            \o PartWrites(Tail(list))

\* the last save() raised nothing
SavedAll == saved # None /\ saved[1].err = NoErr

\* C20: a save() that raises nothing has written the manifest, then the
\* package relationships item, then for each part in the order of the
\* collection its body under its name followed by its relationships item if
\* it has one; each body is written once, and the archive holds what was
\* written and nothing else.
C20_WriteOrder ==
    SavedAll =>
        /\ saved[1].written =
                <<ContentTypesURI, PackageRelsURI>> \o PartWrites(saved[1].package.parts.list)
        /\ \A k \in 1..Len(saved[1].package.parts.list) :
              Cardinality({i \in 1..Len(saved[1].written) :
                  saved[1].written[i] = saved[1].package.parts.list[k].partname}) = 1
        /\ itemURIs(disk[saved[1].path][1]) =
                {saved[1].written[i] : i \in 1..Len(saved[1].written)}

\* a package of three parts was saved, the first of them with
\* relationships and the last without
C20_Witness ==
    /\ SavedAll
    /\ Len(saved[1].package.parts.list) = 3
    /\ saved[1].package.parts.list[1].relsitem # None
    /\ saved[1].package.parts.list[3].relsitem = None
    /\ Len(saved[1].written) >= 6

\* ------------------------------------------- PartCollection, as a whole

\* C17: after any calls of loadpart, failed ones included, the list of the
\* collection and its index by part name hold the same parts, each under
\* its own name and no two of one name; getitem gives the part of the name
\* asked for, or raises the lookup error when the collection holds none.
C17_UniquePaths ==
    LET parts == out[1].self
    IN  /\ {parts.list[i] : i \in 1..Len(parts.list)}
                = {parts.partname_dict[n] : n \in DOMAIN parts.partname_dict}
        /\ NoDuplicates(Partnames(parts))
        /\ \A n \in DOMAIN parts.partname_dict : parts.partname_dict[n].partname = n
        /\ out[1].op = "getitem"
              => IF out[1].arg \in PartnameSet(parts)
                 THEN /\ out[1].err = NoErr
                      /\ out[1].val.partname = out[1].arg
                      /\ \E i \in 1..Len(parts.list) : parts.list[i] = out[1].val
                 ELSE out[1].err = NoSuchKey

\* getitem gave the second part of a collection of three
C17_Witness ==
    /\ out[1].op = "getitem"
    /\ Len(out[1].self.list) = 3
    /\ out[1].err = NoErr
    /\ out[1].val = out[1].self.list[2]

\* the last call was a loadpart that returned the part
LoadpartReturned == Loadparted /\ out[1].err = NoErr

\* C18: a part that loadpart returned has relationships exactly if its type
\* always has them, or may have them and the archive holds the part's
\* relationships item; for a type that never has them the item is not read
\* and the part has none, whether the archive holds the item or not.
C18_TriState ==
    LoadpartReturned =>
        LET has_rels == pml_parttypes[out[1].content_type].has_rels
            present  == Companion(out[1].arg) \in itemURIs(disk[InPath][1])
            read     == \E i \in 1..Len(out[1].reads) : out[1].reads[i] = Companion(out[1].arg)
        IN  /\ relationships(out[1].val) # None
                  <=> (has_rels = "always" \/ (has_rels = "optional" /\ present))
            /\ has_rels = "never" => ~read /\ relationships(out[1].val) = None

\* C18, for the parts that are in a directory of the package, not in its
\* root
C18_TriStateBelowRoot ==
    (LoadpartReturned /\ split(out[1].arg)[1] # <<"/">>) =>
        LET has_rels == pml_parttypes[out[1].content_type].has_rels
            present  == Companion(out[1].arg) \in itemURIs(disk[InPath][1])
            read     == \E i \in 1..Len(out[1].reads) : out[1].reads[i] = Companion(out[1].arg)
        IN  /\ relationships(out[1].val) # None
                  <=> (has_rels = "always" \/ (has_rels = "optional" /\ present))
            /\ has_rels = "never" => ~read /\ relationships(out[1].val) = None

\* --------------------------------------------- ContentTypesItem.compose

\* the parts of the list compose() was given
ComposedOf(parts) == {parts[i] : i \in 1..Len(parts)}

\* the extension of a part name that does not end in .xml, dot included
OtherExt(partname) ==
    LET i == RFind(partname, ".") IN IF i = 0 THEN <<>> ELSE SubSeq(partname, i, Len(partname))

\* C19: what compose(parts) leaves depends on parts alone: an Override for
\* each part whose name ends in .xml, giving the content type of the part,
\* and no other; the Defaults for rels and xml, and for every other
\* extension among the parts the one default_content_types gives; and the
\* lookup error when it gives none for the extension of a part.
C19_FullRebuild ==
    out[1].op = "compose" =>
        LET given  == ComposedOf(out[1].arg)
            xml    == {q \in given : EndsWith(q.partname, DotXml)}
            others == {OtherExt(q.partname) : q \in given \ xml}
        IN  IF \E e \in others : e \notin DOMAIN default_content_types
            THEN out[1].err = NoDefault
            ELSE /\ out[1].err = NoErr
                 /\ out[1].self.overrides # None
                 /\ DOMAIN out[1].self.overrides[1] = {q.partname : q \in xml}
                 /\ \A q \in xml : out[1].self.overrides[1][q.partname] = q.typespec
                 /\ out[1].self.defaults # None
                 /\ DOMAIN out[1].self.defaults[1]
                        = {<<"rels">>, <<"xml">>} \cup {Tail(e) : e \in others}
                 /\ \A e \in others \cup {DotRels, DotXml} :
                        out[1].self.defaults[1][Tail(e)] = default_content_types[e]

\* an item loaded from a manifest with an Override for the part C was
\* composed from the parts A and C
C19_Witness ==
    /\ out[1].op = "compose"
    /\ out[1].err = NoErr
    /\ out[1].before.overrides # None
    /\ PartC \in DOMAIN out[1].before.overrides[1]
    /\ {q.partname : q \in ComposedOf(out[1].arg)} = {PartA, PartC}
    /\ DOMAIN out[1].self.overrides[1] = {PartA}

(***************************************************************************)
(* The bodies of the parts                                                 *)
(***************************************************************************)

\* the format kind of the type spec of a part
KindOf(part) == format(instances[part.typespec])

\* the parts of every package
AllParts == UNION {ComposedOf(pkg[p].parts.list) : p \in Pkgs}

\* C21: every part of a part collection has its element set and its blob
\* empty when the format of its type spec is xml, its blob set and its
\* element empty when the format is binary; and a save() that raised nothing
\* has written, for every part, the serialized element when the format is xml
\* and the blob when it is binary.
C21_BodyExclusive ==
    /\ \A part \in AllParts :
          /\ (part.element # None) <=> (KindOf(part) = "xml")
          /\ (part.blob # None) <=> (KindOf(part) = "binary")
    /\ (saved # None /\ saved[1].err = NoErr) =>
          \A part \in ComposedOf(saved[1].package.parts.list) :
              disk[saved[1].path][1][Tail(part.partname)]
                  = IF KindOf(part) = "xml" THEN tostring(part.element[1])
                    ELSE part.blob[1]

\* a package holding an xml part and a binary part was saved
C21_Witness ==
    /\ saved # None
    /\ saved[1].err = NoErr
    /\ \E x, y \in ComposedOf(saved[1].package.parts.list) :
          /\ KindOf(x) = "xml" /\ x.element # None
          /\ KindOf(y) = "binary" /\ y.blob # None

(***************************************************************************)
(* ZipFileSystem, statement by statement.  Here out[1].self is the archive *)
(* at the path of the file system, op, arg and body are the running or the *)
(* last call, phase tells whether the call is inside its test              *)
(* "itemURI in self" (contains) or past it (body), step is the statement   *)
(* it is at (idle: no call is running), open counts the zipfile.ZipFile    *)
(* objects opened on the archive and not closed, and leaked counts the     *)
(* calls that raised between their ZipFile(...) and their zip.close().     *)
(***************************************************************************)

\* the bytes of a member whose stored checksum does not match its data:
\* zip.read raises on them
Damaged == [kind |-> "damaged"]

BadZipfile == "BadZipfile: Bad CRC-32 for file"

\* no call is made once this many ZipFile objects were left open
MaxLeaked == 2

FsURIs == {PartA, PartB, PartC}

\* the calls made on the file system: <<method, itemURI, blob or element>>
FsCalls ==
    {<<"itemURIs", None, None>>, <<"new", None, None>>}
    \cup {<<"getstream", itemURI, None>> : itemURI \in FsURIs}
    \cup {<<"write_blob", itemURI, blob>> : itemURI \in FsURIs, blob \in WriteBlobs}
    \cup {<<"write_element", itemURI, element>> :
             itemURI \in FsURIs, element \in WriteElements}

FsArchives ==
    {<<>>} \cup {(Tail(PartA) :> XmlBody("bodyA")) @@ (Tail(PartC) :> c) :
                    c \in {RawBody("bodyC"), Damaged}}

InitFS ==
    /\ disk = [p \in Paths |-> None]
    /\ PackageIdle
    /\ out \in {Some([self |-> z, op |-> "", arg |-> None, body |-> None,
                      phase |-> "", step |-> "idle", open |-> 0, leaked |-> 0,
                      err |-> NoErr, val |-> None]) : z \in FsArchives}

FsStep(o) ==
    /\ out' = Some(o)
    /\ UNCHANGED <<disk, instances, pkg, pc, cur, cti, stack, visited, status, saved>>

\* a method of the file system is called: getstream, write_blob and
\* write_element begin with the test "itemURI in self", which reads the
\* property itemURIs
FsCall(c) ==
    /\ out[1].step = "idle"
    /\ out[1].open < MaxLeaked
    /\ FsStep([out[1] EXCEPT !.op = c[1], !.arg = c[2], !.body = c[3],
                             !.phase = IF c[1] \in {"itemURIs", "new"}
                                       THEN "body" ELSE "contains",
                             !.step = "open", !.err = NoErr, !.val = None])

\* zip = zipfile.ZipFile(self.path, ...): mode 'w', in new(), truncates
FsAcquire ==
    /\ out[1].step = "open"
    /\ FsStep([out[1] EXCEPT !.open = @ + 1,
                             !.self = IF out[1].op = "new" THEN new(Some(@)) ELSE @,
                             !.step = IF out[1].op = "new" THEN "close" ELSE "act"])

\* what the statement between ZipFile(...) and zip.close() raises, if it does
FsActErr(o) ==
    IF o.phase = "body" /\ o.op = "getstream" /\ o.self[Tail(o.arg)] = Damaged
    THEN BadZipfile ELSE NoErr

\* zip.namelist(), zip.read(membername) or zip.writestr(membername, ...)
FsAct ==
    /\ out[1].step = "act"
    /\ FsActErr(out[1]) = NoErr
    /\ FsStep([out[1] EXCEPT
          !.step = "close",
          !.val = IF out[1].phase = "contains" \/ out[1].op = "itemURIs"
                  THEN itemURIs(out[1].self)
                  ELSE IF out[1].op = "getstream" THEN out[1].self[Tail(out[1].arg)]
                  ELSE None,
          !.self = IF out[1].phase = "contains" THEN @
                   ELSE IF out[1].op = "write_blob"
                   THEN write_blob(@, out[1].body, out[1].arg).val
                   ELSE IF out[1].op = "write_element"
                   THEN write_element(@, out[1].body, out[1].arg).val
                   ELSE @])

\* zip.read(membername) raises: the call ends there, zip.close() is not
\* reached and no handler or finally clause closes the ZipFile
FsActRaise ==
    /\ out[1].step = "act"
    /\ FsActErr(out[1]) # NoErr
    /\ FsStep([out[1] EXCEPT !.step = "idle", !.err = FsActErr(out[1]),
                             !.val = None, !.leaked = @ + 1])

\* what the test "itemURI in self" makes the call raise, uris being the
\* item URIs of the archive
FsRefused(o, uris) ==
    IF o.op = "getstream" /\ o.arg \notin uris THEN NoItem
    ELSE IF o.op \in {"write_blob", "write_element"} /\ o.arg \in uris
    THEN DuplicateItem
    ELSE NoErr

\* zip.close(), and what follows it up to the next ZipFile(...) or to the
\* end of the call
FsRelease ==
    /\ out[1].step = "close"
    /\ FsStep(IF out[1].phase = "contains"
              THEN IF FsRefused(out[1], out[1].val) # NoErr
                   THEN [out[1] EXCEPT !.open = @ - 1, !.step = "idle",
                                       !.err = FsRefused(out[1], out[1].val),
                                       !.val = None]
                   ELSE [out[1] EXCEPT !.open = @ - 1, !.step = "open",
                                       !.phase = "body", !.val = None]
              ELSE [out[1] EXCEPT !.open = @ - 1, !.step = "idle"])

NextFS ==
    \/ \E c \in FsCalls : FsCall(c)
    \/ FsAcquire
    \/ FsAct
    \/ FsActRaise
    \/ FsRelease

SpecFS == InitFS /\ [][NextFS]_vars

\* the running call is between its ZipFile(...) and its zip.close()
FsHolding == out[1].step \in {"act", "close"}

C22_ScopedButRaised ==
    out[1].open = out[1].leaked + (IF FsHolding THEN 1 ELSE 0)

(***************************************************************************)
(* ContentTypesItem, written and read back                                 *)
(***************************************************************************)

\* the archive holding the serialized item as its manifest, as
\* write_element leaves a new archive
ManifestOf(item) == write_element(new(None), CtiElement(item), ContentTypesURI).val

CtiReloadDone(self, prior, r) ==
    /\ out' = Some([self |-> IF r.err = NoErr THEN r.val ELSE prior,
                     op |-> "reload", arg |-> CtiElement(self), err |-> r.err,
                     val |-> r.val, before |-> self, prior |-> prior])
    /\ UNCHANGED <<disk, instances, pkg, pc, cur, cti, stack, visited, status, saved>>

\* fs.write_element(item.element, '/[Content_Types].xml') on a new archive,
\* then other.load(fs): other is a new item (fresh) or one holding what the
\* item held before its last call
CtiReloadCall(fresh) ==
    \E prior \in {IF fresh THEN ContentTypesItem ELSE out[1].before} :
        \E r \in {CtiLoad(prior, ManifestOf(out[1].self))} :
            CtiReloadDone(out[1].self, prior, r)

NextCTR ==
    \/ NextCTI
    \/ \E fresh \in BOOLEAN : CtiReloadCall(fresh)

SpecCTR == InitCTI /\ [][NextCTR]_vars

\* the entries of a map of an item; an item never loaded or composed has none
EntriesOf(map) == IF map = None THEN <<>> ELSE map[1]

\* the values of attribute key of the elements, in order
Keys(elements, key) == [i \in 1..Len(elements) |-> elements[i].attrs[key]]

\* a list of strings in strictly ascending order
Ascending(keys) == \A i, j \in 1..Len(keys) : i < j => StrLess(keys[i], keys[j])

\* C23: the element of an item holds one Default per extension of its
\* defaults, in ascending order of the extensions, and one Override per part
\* name of its overrides, in ascending order of the part names, each with
\* the content type of its entry; and an item that loads the manifest written
\* from that element holds, whatever it held before, the defaults and the
\* overrides of the first.
C23_ManifestRoundTrip ==
    out[1].op = "reload" =>
        LET defaults  == EntriesOf(out[1].before.defaults)
            overrides == EntriesOf(out[1].before.overrides)
            ds == findall(out[1].arg, "ct", "Default")
            os == findall(out[1].arg, "ct", "Override")
        IN  /\ Len(out[1].arg.children) = Len(ds) + Len(os)
            /\ Len(ds) = Cardinality(DOMAIN defaults)
            /\ Ascending(Keys(ds, "Extension"))
            /\ \A i \in 1..Len(ds) :
                  /\ ds[i].attrs.Extension \in DOMAIN defaults
                  /\ ds[i].attrs.ContentType = defaults[ds[i].attrs.Extension]
            /\ Len(os) = Cardinality(DOMAIN overrides)
            /\ Ascending(Keys(os, "PartName"))
            /\ \A i \in 1..Len(os) :
                  /\ os[i].attrs.PartName \in DOMAIN overrides
                  /\ os[i].attrs.ContentType = overrides[os[i].attrs.PartName]
            /\ out[1].err = NoErr
            /\ DOMAIN out[1].self.defaults[1] = DOMAIN defaults
            /\ \A e \in DOMAIN defaults : out[1].self.defaults[1][e] = defaults[e]
            /\ DOMAIN out[1].self.overrides[1] = DOMAIN overrides
            /\ \A q \in DOMAIN overrides : out[1].self.overrides[1][q] = overrides[q]

\* an item of two defaults and two overrides was written and read back by
\* an item that held an override the first does not hold
C23_Witness ==
    /\ out[1].op = "reload"
    /\ out[1].before.defaults # None
    /\ Cardinality(DOMAIN out[1].before.defaults[1]) >= 2
    /\ Cardinality(DOMAIN out[1].before.overrides[1]) >= 2
    /\ out[1].prior.overrides # None
    /\ DOMAIN out[1].prior.overrides[1] \ DOMAIN out[1].before.overrides[1] # {}
    /\ out[1].self = out[1].before

(***************************************************************************)
(* The order of the parts                                                  *)
(***************************************************************************)

\* the part names the relationships of an optional rels item point at, in
\* the order of the collection
TargetList(relsitem) ==
    IF relsitem = None THEN <<>>
    ELSE [i \in DOMAIN relsitem[1].relationships.list |->
             target_partname(relsitem[1].baseURI, relsitem[1].relationships.list[i])]

\* the targets of the part of that name, none if the package has no such part
TargetListOf(package, partname) ==
    IF partname \in DOMAIN package.parts.partname_dict
    THEN TargetList(package.parts.partname_dict[partname].relsitem)
    ELSE <<>>

\* the part names in depth-first pre-order: todo are the names still to
\* visit, first to last, and seen those visited, in the order of the visits
RECURSIVE PreOrder(_, _, _)
PreOrder(package, todo, seen) ==
    IF todo = <<>> THEN seen
    ELSE IF \E i \in DOMAIN seen : seen[i] = Head(todo)
    THEN Call3(PreOrder, package, Tail(todo), seen)
    ELSE Call3(PreOrder, package,
               TargetListOf(package, Head(todo)) \o Tail(todo),
               Append(seen, Head(todo)))

\* every activation of loadparts but the outermost walks the relationships
\* of a part of the package
OwnersRegistered ==
    pc = "loadparts" =>
        \A k \in 2..Len(stack) :
            \E part \in ComposedOf(pkg[cur[1].p].parts.list) :
                /\ part.relsitem # None
                /\ part.relsitem[1].baseURI = stack[k].baseURI
                /\ part.relsitem[1].relationships.list = stack[k].rels

\* C24: once open() has returned, the parts of the package are, in order,
\* the part names of the depth-first pre-order of the relationships from
\* those of the package, each owner's taken in the order of its collection;
\* and while open() runs, a part is in the collection before loadparts walks
\* its relationships.
C24_LoadOrder ==
    /\ \A p \in Pkgs :
          Opened(p) => Partnames(pkg[p].parts)
                          = PreOrder(pkg[p], TargetList(pkg[p].relsitem), <<>>)
    /\ OwnersRegistered

\* the same, of a Package on which open() is called for the first time
C24_LoadOrderOnce ==
    /\ \A p \in Pkgs :
          OpenedOnce(p) => Partnames(pkg[p].parts)
                              = PreOrder(pkg[p], TargetList(pkg[p].relsitem), <<>>)
    /\ OwnersRegistered

(***************************************************************************)
(* Package.save, failing                                                   *)
(***************************************************************************)

\* the target of a relationship of the package that points at the manifest
RootToTypes == <<"[Content_Types]", ".", "xml">>

\* an archive whose manifest gives the manifest itself the content type of
\* a theme part, so that a relationship pointing at it loads it as a part
TypedManifest(root, a) ==
    Member(TRUE, ContentTypesURI,
           TypesDoc(<<<<<<"rels">>, CT_RELS>>, <<<<"xml">>, CT_XML>>,
                      <<<<"png">>, CT_PNG>>>>,
                    <<<<PartA, CT_SLIDE>>, <<PartB, CT_THEME>>,
                      <<ContentTypesURI, CT_THEME>>>>))
    @@ Archive(root, a, None, [a |-> CT_SLIDE, b |-> CT_THEME, png |-> CT_PNG], "none")

SaveFailArchives ==
    {TypedManifest(r, a) :
        r \in {<<RootToTypes>>, <<RootToA, RootToTypes>>, <<RootToTypes, RootToA>>,
               <<RootToA, RootToTypes, RootToC>>},
        a \in {Some(<<ToB>>), Some(<<ToB, ToC>>)}}
    \cup
    {Archive(<<RootToA, RootToB>>, Some(<<ToB>>), Some(<<ToA>>),
             [a |-> CT_SLIDE, b |-> CT_THEME, png |-> t], f) :
        t \in {CT_PNG, CT_JPEG}, f \in {"none", "b_missing", "no_rootrels"}}

SpecSaveFail == InitWith(SaveFailArchives) /\ [][Next]_vars

\* the items a save() of the package that raises nothing writes, in order
SaveWrites(package) ==
    <<ContentTypesURI, PackageRelsURI>> \o PartWrites(package.parts.list)

\* the bytes save() writes for the k-th of those items
SaveBytes(package, k) ==
    IF k = 1
    THEN tostring(CtiElement(compose(ContentTypesItem, package.parts.list).val))
    ELSE IF k = 2 THEN tostring(RelsItemElement(package.relsitem[1]))
    ELSE LET uri   == SaveWrites(package)[k]
             parts == package.parts.partname_dict
         IN  IF uri \in DOMAIN parts /\ SaveWrites(package)[k - 1] # uri
                /\ (k = 3 \/ uri # Companion(SaveWrites(package)[k - 1])
                          \/ parts[SaveWrites(package)[k - 1]].relsitem = None)
             THEN IF KindOf(parts[uri]) = "xml" THEN tostring(parts[uri].element[1])
                  ELSE parts[uri].blob[1]
             ELSE tostring(RelsItemElement(parts[SaveWrites(package)[k - 1]].relsitem[1]))

\* the last save() raised
SaveFailed == saved # None /\ saved[1].err # NoErr

\* C25: when save() raises, the caller gets the exception of the first
\* statement that failed; the items written until then are the first of
\* those a whole save() writes, in its order, the archive at the path holds
\* them with the bytes written and holds nothing else, and no item that
\* comes after the failing one is written.
C25_NonTransactional ==
    SaveFailed =>
        LET n   == Len(saved[1].written)
            zip == disk[saved[1].path][1]
        IN  /\ status[saved[1].p].last = "save" => status[saved[1].p].err = saved[1].err
            /\ saved[1].package.relsitem = None => n <= 1
            /\ saved[1].package.relsitem # None =>
                  /\ n < Len(SaveWrites(saved[1].package))
                  /\ saved[1].written = SubSeq(SaveWrites(saved[1].package), 1, n)
            /\ itemURIs(zip) = {saved[1].written[i] : i \in 1..n}
            /\ \A k \in 1..n : zip[Tail(saved[1].written[k])] = SaveBytes(saved[1].package, k)

\* a save() raised at the write of a part, after the writes of the manifest,
\* of the package relationships and of an earlier part with its
\* relationships, and left a later part unwritten
C25_Witness ==
    /\ SaveFailed
    /\ saved[1].err = DuplicateItem
    /\ Len(saved[1].written) >= 4
    /\ Len(saved[1].written) + 1 < Len(SaveWrites(saved[1].package))
    /\ PartC \in PartnameSet(saved[1].package.parts)
    /\ PartC \notin itemURIs(disk[saved[1].path][1])

(***************************************************************************)
(* Package.save, twice                                                     *)
(***************************************************************************)

CopyPath == <<"copy", ".", "pptx">>

SaveAgainWith(p, np, r) ==
    /\ disk' = (np :> Some(r.zip)) @@ disk
    /\ saved' = Some([p |-> p, path |-> np, err |-> r.err, package |-> pkg[p],
                      fresh |-> TRUE, status |-> status[p],
                      existing |-> None, written |-> r.written,
                      over_saved |-> FALSE])
    /\ status' = [status EXCEPT ![p] =
                     [@ EXCEPT !.saves = @ + 1, !.last = "save", !.err = r.err]]
    /\ UNCHANGED <<instances, pkg, pc, cur, cti, stack, visited, out>>

SaveAgainAt(p, np) ==
    /\ np \notin DOMAIN disk
    /\ \E r \in {save(pkg[p], instances, None)} : SaveAgainWith(p, np, r)

\* save() on p right after a save() on it to a path that held nothing, for
\* another path that holds nothing
SaveAgain(p, path) ==
    /\ pc = "idle"
    /\ saved # None /\ saved[1].p = p /\ saved[1].fresh
    /\ status[p].last = "save"
    /\ \E np \in {normalizedpath(path)} : SaveAgainAt(p, np)

NextTwice ==
    \/ Next
    \/ \E path \in {<<"copy">>, CopyPath} : SaveAgain("p1", path)

SpecTwice == InitWith(SaveFailArchives) /\ [][NextTwice]_vars

\* this step is a save() on p
Saves(p) == status'[p].saves = status[p].saves + 1

\* this step is the second of two save() calls on one package
SavesAgain == saved # None /\ saved' # None /\ saved'[1].path = CopyPath

FirstArchives ==
    {Archive(<<RootToA, RootToB>>, Some(<<ToB>>), Some(<<ToA>>),
             [a |-> CT_SLIDE, b |-> CT_THEME, png |-> CT_PNG], f) :
        f \in {"none", "b_missing"}}
    \cup
    {Archive(<<RootToA>>, Some(<<ToB, ToC>>), None,
             [a |-> CT_SLIDE, b |-> t, png |-> CT_PNG], "none") :
        t \in {CT_THEME, NoEntry}}

LaterArchives ==
    {Archive(r, a, None, t, "none") :
        r \in {<<RootToA, RootToC>>, <<RootToB, RootToA>>},
        a \in {None, Some(<<ToC>>)},
        t \in {[a |-> CT_THEME, b |-> CT_PROPS, png |-> CT_JPEG],
               [a |-> CT_SLIDE, b |-> CT_THEME, png |-> CT_PNG]}}
    \cup
    {Archive(<<RootToA, RootToB>>, Some(<<ToB>>), Some(<<ToA>>),
             [a |-> CT_SLIDE, b |-> CT_THEME, png |-> CT_PNG], f) :
        f \in {"no_rootrels", "b_raw"}}

InitReopen ==
    /\ disk \in {[p \in Paths |-> IF p = InPath THEN Some(z1) ELSE Some(z2)] :
                    z1 \in FirstArchives, z2 \in LaterArchives}
    /\ instances = <<>>
    /\ pkg = [p \in Pkgs |-> Package]
    /\ pc = "idle"
    /\ cur = None
    /\ cti = None
    /\ stack = <<>>
    /\ visited = <<>>
    /\ status = [p \in Pkgs |-> NoStatus]
    /\ saved = None
    /\ out = None

\* the path of the next open() on p: the first is of one archive, the later
\* ones of the other
ReopenPath(p) == IF status[p].opens = 0 THEN InPath ELSE OutPath

\* the path of the last open() on p
LastPath(p) == IF status[p].opens <= 1 THEN InPath ELSE OutPath

NextReopen ==
    \/ \E path \in {ReopenPath("p1")} : OpenRaise("p1", path)
    \/ \E path \in {ReopenPath("p1")} : OpenEnter("p1", path)
    \/ LoadSkip
    \/ LoadNew
    \/ LoadRaise

SpecReopen == InitReopen /\ [][NextReopen]_vars

\* what the ContentTypesItem loaded by the last open() on p gives for a part name
LastResolved(p, partname) ==
    CtiGetitem(CtiLoad(ContentTypesItem, disk[LastPath(p)][1]).val, partname)

\* C27: once open() has returned, the content type of every part of the
\* package is a key of pml_parttypes and is the one the ContentTypesItem
\* that open() loaded gives for the name of the part.
C27_Typed ==
    \A p \in Pkgs :
        Opened(p) => \A part \in ComposedOf(pkg[p].parts.list) :
                        /\ part.typespec \in DOMAIN pml_parttypes
                        /\ LastResolved(p, part.partname) = Ok(part.typespec)

\* the same, of a Package on which open() is called for the first time
C27_TypedOnce ==
    \A p \in Pkgs :
        OpenedOnce(p) => \A part \in ComposedOf(pkg[p].parts.list) :
                            /\ part.typespec \in DOMAIN pml_parttypes
                            /\ LastResolved(p, part.partname) = Ok(part.typespec)

\* the parts of a are the first of b, in order, and the index of b holds
\* every part name of a with the same part
GrownFrom(a, b) ==
    /\ Len(a.list) <= Len(b.list)
    /\ SubSeq(b.list, 1, Len(a.list)) = a.list
    /\ \A n \in DOMAIN a.partname_dict :
          /\ n \in DOMAIN b.partname_dict
          /\ b.partname_dict[n] = a.partname_dict[n]

\* the relationship loadparts is at points at a part of the package
AtKnownPart ==
    /\ pc = "loadparts"
    /\ PartsContains(pkg[cur[1].p].parts, CurPartname)

\* C28: whatever open() calls are made on a Package, no step takes a part out
\* of its collection or puts another in the place of one: the collection
\* keeps its parts, in their order, and only gains parts at its end; and when
\* loadparts comes to a relationship whose target is a part of the
\* collection, the part is left as it is and loadpart is not called for it.
C28_OnlyGrows ==
    [][/\ \A p \in Pkgs : GrownFrom(pkg[p].parts, pkg'[p].parts)
       /\ AtKnownPart => /\ \A p \in Pkgs : pkg'[p].parts = pkg[p].parts
                         /\ visited' = visited
                         /\ instances' = instances]_vars

\* a second open() has returned, of an archive that relates to a part the
\* package held from its first open(), and the part is not the one that
\* archive gives
C28_Witness ==
    /\ Opened("p1")
    /\ status["p1"].opens = 2
    /\ \E part \in ComposedOf(pkg["p1"].parts.list) :
          /\ part.partname \in Targets(pkg["p1"].relsitem[1])
          /\ LoadOf(disk[OutPath][1], part.partname).err = NoErr
          /\ LoadOf(disk[OutPath][1], part.partname).val # part
          /\ LoadOf(disk[InPath][1], part.partname).val = part

=============================================================================
